---- MODULE Spec2Model ----
(***************************************************************************)
(* homedeck: the interaction engine of HomeDeck (src/homedeck/homedeck.py) *)
(* - the page navigation stack, the tap/hold input loop with its hold      *)
(* timer, and the wake/dim/sleep power model driven by the keep-alive tick.*)
(*                                                                         *)
(* Time is counted in half-seconds: the hold threshold (0.5 s) is one      *)
(* unit, the keep-alive period (1 s) two units, a timeout of n seconds 2n  *)
(* units. time.time() - _last_action_time is kept as the variable idle,    *)
(* time.time() - press_time as press_age, both saturated above every       *)
(* threshold they are compared with.                                       *)
(*                                                                         *)
(* The second part is the page renderer (src/homedeck/elements.py):        *)
(* PageElement.render_buttons, which resolves the buttons of a page,       *)
(* paginates them with the system buttons and diffs the frame of the       *)
(* requested page number against the frame of the previous call.           *)
(***************************************************************************)
EXTENDS Integers, Sequences, FiniteSets, TLC

\* ------------------------------------------------------------- bounds
MaxStack == 3          \* longest page stack explored
MaxPageNumber == 2     \* highest page number explored
MaxTimeout == 2        \* longest dim / sleep timeout explored, in seconds
MaxReloads == 1        \* hot reloads explored in a session of the power model
MaxButtons == 4        \* longest list of buttons of a page explored
MaxForms == 3          \* longest list of buttons explored with every form of visibility
SlotsPerPage == 3      \* buttons_per_page: the slots of the device explored
MaxIcons == 2          \* most buttons with an icon on the page of the icon model
MaxTasks == 3          \* most download tasks alive at a time
MaxSessions == 2       \* most rounds of the loop of _setup that start a session

\* ---------------------------------------------------- program constants
HoldThreshold == 1     \* hold_threshold = 0.5 s, in half-seconds
TickPeriod == 2        \* asyncio.sleep(1) of _keep_alive, in half-seconds
SmallWindow == 13      \* index of the small window button
DefaultBrightness == 100
DefaultDimBrightness == 1

Root == "$root"
PageIds == {Root, "sub"}
Slots == {0, SmallWindow}
Button == CHOOSE index \in Slots : index # SmallWindow    \* an ordinary button

\* n seconds of a SleepConfig in the unit of time; _keep_alive sleeps one second
Seconds(n) == n * TickPeriod

WAKE == "wake"
DIM == "dim"
SLEEP == "sleep"

TAP == "tap"
HOLD == "hold"

\* ButtonElementAction, and "service" for a Home Assistant service call
PAGE_BACK == "$page.back"
PAGE_PREVIOUS == "$page.previous"
PAGE_NEXT == "$page.next"
PAGE_GO_TO == "$page.go_to"
SERVICE == "service"
NoAction == "none"

\* MainConfig.sleep: None, or a SleepConfig with its timeouts in seconds
NoSleep ==
    [present |-> FALSE, dim_brightness |-> DefaultDimBrightness,
     dim_timeout |-> 0, sleep_timeout |-> 0]
SleepConfigs ==
    {NoSleep} \cup [present : {TRUE}, dim_brightness : {DefaultDimBrightness},
                    dim_timeout : 0..MaxTimeout, sleep_timeout : 0..MaxTimeout]

\* The valid configurations: every one has the root page.
Configurations ==
    [loaded : {TRUE}, brightness : {DefaultBrightness}, pages : {{Root}, PageIds},
     sleep : SleepConfigs]

\* self._configuration = None
NoConfiguration ==
    [loaded |-> FALSE, brightness |-> DefaultBrightness, pages |-> {}, sleep |-> NoSleep]

\* the configurations of the power model: both pages, every sleep configuration
PowerConfigurations == {c \in Configurations : c.pages = PageIds}

\* the configurations of the navigation: with and without the page "sub", no sleep
NavConfigurations == {c \in Configurations : c.sleep = NoSleep}

\* What a button of the configuration does on an interaction.
ButtonActions ==
    [action : {NoAction, PAGE_BACK, PAGE_PREVIOUS, PAGE_NEXT, SERVICE}, data : {Root}]
        \cup [action : {PAGE_GO_TO}, data : PageIds]

\* the buttons that leave the page alone: no action, or a Home Assistant service
ServiceActions == {act \in ButtonActions : act.action \in {NoAction, SERVICE}}

\* idle saturates just above the timeouts of the configuration it is compared with
IdleCap(config) ==
    Seconds(IF config.sleep.dim_timeout >= config.sleep.sleep_timeout
            THEN config.sleep.dim_timeout ELSE config.sleep.sleep_timeout) + 1

VARIABLES
    configuration,         \* HomeDeck._configuration
    pages_stack,           \* HomeDeck._pages_stack
    current_page_id,       \* HomeDeck._current_page_id
    current_page_number,   \* HomeDeck._current_page_number
    sleep_status,          \* HomeDeck._sleep_status
    idle,                  \* time.time() - HomeDeck._last_action_time
    brightness,            \* the brightness last written to the device
    displayed,             \* the location of the frame last rendered for the device
    calls,                 \* what the last handler did: device calls, renders, interactions
    is_ready,              \* HomeDeck._is_ready: FALSE once the session's tasks failed
    button_index,          \* _read_packets: the index of the last ButtonAction, -1 for None
    is_holding,            \* _read_packets: is_holding
    hold_timer,            \* _read_packets: the timer task hold_timer refers to, 0 for None
    press_index,           \* _read_packets: press_index
    press_age,             \* _read_packets: time.time() - press_time
    timers,                \* the timer tasks of set_timeout still asleep: task -> time slept
    read_pc,               \* _read_packets: "read", or "waking" in the sleep before _wake_up
    tick_age,              \* _keep_alive: the time slept of its asyncio.sleep(1)
    down,                  \* the slots held down on the device
    gesture,               \* per slot, what its last press made while awake has received
    page_config,           \* PageElement._page_config: buttons_raw, and whether a sub page
    system_buttons,        \* Configuration.system_buttons: the position of each
    all_states,            \* HomeAssistantWebSocket.all_states: the live state
    last_page_number,      \* the page_number of the last render_buttons call, 0 before it
    element,               \* the PageElement: _button_raws, _button_elements, changed
    returned,              \* what the last render_buttons call returned
    layout,                \* the resolved and the paginated buttons of the last call
    page_elements,         \* Configuration: per page id its PageConfig and PageElement
    current_page_element,  \* HomeDeck._current_page_element
    device,                \* the button each slot of the device shows
    last_sent,             \* the set_buttons call of the last reload_page, if any
    icon_layers,           \* the IconLayer objects of an icon, by name
    page_icons,            \* the layers of the icon of each button of the page
    files,                 \* .cache/icons and assets: the source file of each path
    generated,             \* .cache/icons/_generated: the bitmaps stored, by file name
    requested,             \* IconProvider._requested
    download_tasks,        \* the tasks of _create_download_task alive, oldest first
    published,             \* the DECK_FORCE_RELOAD events published
    last_render,           \* what the last render of the page did and gave
    worker_calls,          \* what the last step of a download task did, in order
    need_reload_all,       \* HomeDeck._need_reload_all
    exited,                \* sys.exit(1) was called: the process has ended
    session_tasks,         \* the tasks of asyncio.gather alive: the round of _setup, the name
    session                \* the rounds of the loop of _setup that reached asyncio.gather

deckVars == <<configuration, pages_stack, current_page_id, current_page_number,
              sleep_status, idle, brightness, displayed, calls>>
loopVars == <<button_index, is_holding, hold_timer, press_index, press_age, timers, read_pc>>
renderVars == <<page_config, system_buttons, all_states, last_page_number, element,
                returned, layout>>
iconVars == <<page_icons, files, generated, requested, download_tasks, published,
              last_render, worker_calls>>
loadVars == <<need_reload_all, exited>>
taskVars == <<session_tasks, session>>
screenVars == <<page_elements, current_page_element, device, last_sent, icon_layers, iconVars,
                loadVars, taskVars>>
vars == <<deckVars, loopVars, is_ready, tick_age, down, gesture, renderVars, screenVars>>
sessionVars == <<deckVars, loopVars, is_ready, tick_age, down, gesture>>


\* ------------------------------------------------------------ HomeDeck
\* The HomeDeck object as a record, so that a method is an operator from the
\* object before the call to the object after it. error is the exception a
\* method raised, "none" when it returned.
Deck ==
    [configuration |-> configuration, pages_stack |-> pages_stack,
     current_page_id |-> current_page_id, current_page_number |-> current_page_number,
     sleep_status |-> sleep_status, idle |-> idle, brightness |-> brightness,
     displayed |-> displayed, calls |-> <<>>, error |-> "none"]

Commit(d) ==
    /\ configuration' = d.configuration
    /\ pages_stack' = d.pages_stack
    /\ current_page_id' = d.current_page_id
    /\ current_page_number' = d.current_page_number
    /\ sleep_status' = d.sleep_status
    /\ idle' = d.idle
    /\ brightness' = d.brightness
    /\ displayed' = d.displayed
    /\ calls' = d.calls

Log(d, call) == [d EXCEPT !.calls = Append(@, call)]

Top(stack) == stack[Len(stack)]
Pop(stack) == SubSeq(stack, 1, Len(stack) - 1)

set_brightness(d, value) ==
    [Log(d, "set_brightness") EXCEPT !.brightness = value]

has_page(config, page_id) == page_id \in config.pages

\* reload_page renders the page at the current page number and brings the
\* device to show that frame. Here a frame stands for its location: the whole
\* frame is sent (set_buttons) when forced or when another page is on the
\* device, the slots that changed (update_only) when the same page is shown at
\* another number, and nothing when the frame is the one on the device.
reload_page(d, page_id, force) ==
    LET frame == <<page_id, d.current_page_number>>
        rendered == Log(d, "render")
        sent == IF force \/ d.displayed = <<>> \/ d.displayed[1] # page_id
                THEN Log(rendered, "set_buttons")
                ELSE IF d.displayed # frame
                     THEN Log(rendered, "update_only")
                     ELSE rendered
    IN  [sent EXCEPT !.displayed = frame]

reload_current_page(d) == reload_page(d, d.current_page_id, FALSE)

\* force_reload_current_page that passes force=False
force_reload_current_page_unforced(d) == reload_page(d, d.current_page_id, FALSE)

force_reload_current_page(d) == reload_page(d, d.current_page_id, TRUE)

\* page_go_to that never appends to the stack
page_go_to_without_append(d, page_id, page_number, append_stack) ==
    IF ~has_page(d.configuration, page_id)
    THEN d
    ELSE reload_current_page(
            [d EXCEPT !.current_page_id = page_id, !.current_page_number = page_number])

page_go_to(d, page_id, page_number, append_stack) ==
    IF ~has_page(d.configuration, page_id)
    THEN d
    ELSE reload_current_page(
            [d EXCEPT !.pages_stack =
                          IF append_stack THEN Append(@, <<page_id, page_number>>) ELSE @,
                      !.current_page_id = page_id,
                      !.current_page_number = page_number])

\* page_go_back that forgets to remove the current page
page_go_back_without_pop(d) ==
    LET target == IF d.pages_stack # <<>> THEN Top(d.pages_stack) ELSE <<Root, 1>>
    IN  page_go_to(d, target[1], target[2], FALSE)

page_go_back(d) ==
    LET stack == IF d.pages_stack # <<>> THEN Pop(d.pages_stack) ELSE d.pages_stack
        target == IF stack # <<>> THEN Top(stack) ELSE <<Root, 1>>
    IN  page_go_to([d EXCEPT !.pages_stack = stack], target[1], target[2], FALSE)

Max(a, b) == IF a >= b THEN a ELSE b

page_go_previous(d) ==
    IF d.pages_stack = <<>>
    THEN [d EXCEPT !.error = "IndexError"]
    ELSE LET target_page == Top(d.pages_stack)[1]
             page_number == Max(1, d.current_page_number - 1)
         IN  reload_current_page(
                [d EXCEPT !.pages_stack[Len(d.pages_stack)] = <<target_page, page_number>>,
                          !.current_page_number = page_number])

page_go_next(d) ==
    IF d.pages_stack = <<>>
    THEN [d EXCEPT !.error = "IndexError"]
    ELSE LET target_page == Top(d.pages_stack)[1]
             page_number == d.current_page_number + 1
         IN  reload_current_page(
                [d EXCEPT !.pages_stack[Len(d.pages_stack)] = <<target_page, page_number>>,
                          !.current_page_number = page_number])

\* _wake_up that leaves the brightness of the device as it is
wake_up_in_the_dark(d) == [d EXCEPT !.sleep_status = WAKE, !.idle = 0]

wake_up(d) ==
    LET lit == IF d.sleep_status # WAKE
               THEN set_brightness(d, d.configuration.brightness) ELSE d
    IN  [lit EXCEPT !.sleep_status = WAKE, !.idle = 0]

sleep(d) ==
    [set_brightness(d, 0) EXCEPT !.sleep_status = SLEEP, !.idle = 0]

\* reload_all that leaves the brightness to _wake_up
reload_all_lit_by_wake_up_only(d, new_configuration) ==
    page_go_to(wake_up([d EXCEPT !.configuration = new_configuration]), Root, 1, TRUE)

\* reload_all with a file that loads into the valid configuration new_configuration
reload_all(d, new_configuration) ==
    LET woken == wake_up([d EXCEPT !.configuration = new_configuration])
        lit == set_brightness(woken, woken.configuration.brightness)
    IN  page_go_to(lit, Root, 1, TRUE)

\* ButtonElement.trigger_action of a button whose action for the interaction is
\* act; it prints the action, which calls keeps (and the page of a go_to)
trigger_action(d, act) ==
    CASE act.action = NoAction -> d
      [] act.action = PAGE_BACK -> page_go_back(Log(d, PAGE_BACK))
      [] act.action = PAGE_PREVIOUS -> page_go_previous(Log(d, PAGE_PREVIOUS))
      [] act.action = PAGE_NEXT -> page_go_next(Log(d, PAGE_NEXT))
      [] act.action = PAGE_GO_TO ->
            page_go_to(Log(Log(d, PAGE_GO_TO), act.data), act.data, 1, TRUE)
      [] OTHER -> Log(d, act.action)

\* _on_interacted: act is what the button at index, if any, does on interaction
on_interacted(d, interaction, index, act) ==
    LET seen == Log(d, interaction)
    IN  IF index = SmallWindow
        THEN IF interaction = HOLD THEN sleep(seen) ELSE seen
        ELSE trigger_action(seen, act)

\* _reset
reset(d) ==
    [d EXCEPT !.pages_stack = <<>>, !.configuration = NoConfiguration,
              !.displayed = <<>>, !.sleep_status = WAKE, !.idle = 0]


\* ------------------------------------------------- the gestures, observed
Untracked ==
    [awake |-> FALSE, age |-> HoldThreshold, taps |-> 0, holds |-> 0,
     released |-> TRUE, quick |-> FALSE]

Started ==
    [awake |-> TRUE, age |-> 0, taps |-> 0, holds |-> 0,
     released |-> FALSE, quick |-> FALSE]

Min(a, b) == IF a <= b THEN a ELSE b

\* the interactions ("tap" or "hold") the calls of a handler delivered to slot index
Delivered(g, d, index) ==
    LET n(kind) == Cardinality({i \in 1..Len(d.calls) : d.calls[i] = kind})
    IN  IF index \in Slots /\ g[index].awake
        THEN [g EXCEPT ![index].taps = Min(2, @ + n(TAP)),
                       ![index].holds = Min(2, @ + n(HOLD))]
        ELSE g


\* ------------------------------------------------------- _read_packets
\* The locals of _read_packets as a record, like Deck.
Loop ==
    [button_index |-> button_index, is_holding |-> is_holding, hold_timer |-> hold_timer,
     press_index |-> press_index, press_age |-> press_age, timers |-> timers,
     read_pc |-> read_pc]

CommitLoop(l) ==
    /\ button_index' = l.button_index
    /\ is_holding' = l.is_holding
    /\ hold_timer' = l.hold_timer
    /\ press_index' = l.press_index
    /\ press_age' = l.press_age
    /\ timers' = l.timers
    /\ read_pc' = l.read_pc

NoTimers == [t \in {} |-> 0]

\* the locals at the start of _read_packets
NewLoop ==
    [button_index |-> -1, is_holding |-> FALSE, hold_timer |-> 0, press_index |-> -1,
     press_age |-> HoldThreshold, timers |-> NoTimers, read_pc |-> "read"]

Without(tasks, t) == [u \in DOMAIN tasks \ {t} |-> tasks[u]]

\* hold_timer = None without hold_timer.cancel()
cancel_hold_timer_dropping_the_task(l) == [l EXCEPT !.hold_timer = 0]

\* hold_timer.cancel(); hold_timer = None
cancel_hold_timer(l) ==
    IF l.hold_timer # 0
    THEN [l EXCEPT !.timers = Without(@, l.hold_timer), !.hold_timer = 0]
    ELSE l

\* set_timeout(hold_timer_callback, hold_threshold): a new task, asleep
set_timeout(l) ==
    LET task == CHOOSE t \in 1..(Cardinality(DOMAIN l.timers) + 1) : t \notin DOMAIN l.timers
    IN  [l EXCEPT !.timers = [u \in DOMAIN @ \cup {task} |-> IF u = task THEN 0 ELSE @[u]],
                  !.hold_timer = task]

\* the branch of a pressed command
pressed_branch(l) ==
    [set_timeout([l EXCEPT !.press_age = 0, !.is_holding = FALSE])
        EXCEPT !.press_index = l.button_index]

\* the released branch that forgets the tap of a release that follows no hold
released_branch_never_tapping(d, l, act) ==
    [d |-> d, l |-> [l EXCEPT !.is_holding = FALSE]]

\* the branch of a released command
released_branch(d, l, act) ==
    [d |-> IF ~l.is_holding THEN on_interacted(d, TAP, l.button_index, act) ELSE d,
     l |-> [l EXCEPT !.is_holding = FALSE]]

\* the part of the loop body that runs while the device dims or sleeps
asleep_branch(d, l, pressed, act) ==
    IF d.sleep_status = DIM
    THEN IF pressed
         THEN [d |-> wake_up(d), l |-> pressed_branch(l)]
         ELSE released_branch(wake_up(d), l, act)
    ELSE IF ~l.is_holding /\ ~pressed
         THEN [d |-> force_reload_current_page(d), l |-> [l EXCEPT !.read_pc = "waking"]]
         ELSE [d |-> d, l |-> [l EXCEPT !.is_holding = FALSE]]

\* the loop body for a ButtonAction command of slot index
button_action(d, l, index, pressed, act) ==
    LET seen == [d EXCEPT !.idle = 0]
        cleared == cancel_hold_timer([l EXCEPT !.button_index = index])
    IN  IF seen.configuration.sleep.present /\ seen.sleep_status # WAKE
        THEN asleep_branch(seen, cleared, pressed, act)
        ELSE IF pressed
             THEN [d |-> seen, l |-> pressed_branch(cleared)]
             ELSE released_branch(seen, cleared, act)

\* the loop body after its asyncio.sleep(0.2): _wake_up(), is_holding = False, continue
wake_finish(d, l) ==
    [d |-> wake_up(d), l |-> [l EXCEPT !.is_holding = FALSE, !.read_pc = "read"]]

\* hold_timer_callback of the timer task, once its sleep is over
hold_timer_callback(d, l, task, act) ==
    LET woken == [l EXCEPT !.timers = Without(@, task)]
    IN  IF l.press_age >= HoldThreshold
        THEN [d |-> on_interacted(d, HOLD, l.button_index, act),
              l |-> [woken EXCEPT !.is_holding = TRUE, !.hold_timer = 0]]
        ELSE [d |-> d, l |-> woken]

\* ---------------------------------------------------------- _keep_alive
\* _keep_alive comparing with >= where the code compares with >
keep_alive_at_the_timeout(d) ==
    LET sleep_config == d.configuration.sleep
        diff == d.idle
    IN  IF d.sleep_status = SLEEP \/ ~sleep_config.present
        THEN d
        ELSE IF sleep_config.sleep_timeout > 0
                /\ diff >= Seconds(sleep_config.sleep_timeout)
        THEN sleep(d)
        ELSE IF sleep_config.dim_timeout > 0 /\ d.sleep_status # DIM
                /\ diff >= Seconds(sleep_config.dim_timeout)
        THEN [set_brightness(d, sleep_config.dim_brightness) EXCEPT !.sleep_status = DIM]
        ELSE d

\* _keep_alive that restarts the idle clock when it dims, as _sleep does
keep_alive_restarting_at_dim(d) ==
    LET sleep_config == d.configuration.sleep
        diff == d.idle
    IN  IF d.sleep_status = SLEEP \/ ~sleep_config.present
        THEN d
        ELSE IF sleep_config.sleep_timeout > 0
                /\ diff > Seconds(sleep_config.sleep_timeout)
        THEN sleep(d)
        ELSE IF sleep_config.dim_timeout > 0 /\ d.sleep_status # DIM
                /\ diff > Seconds(sleep_config.dim_timeout)
        THEN [set_brightness(d, sleep_config.dim_brightness)
                EXCEPT !.sleep_status = DIM, !.idle = 0]
        ELSE d

\* the body of the loop of _keep_alive after its asyncio.sleep(1)
keep_alive(d) ==
    LET sleep_config == d.configuration.sleep
        diff == d.idle
    IN  IF d.sleep_status = SLEEP
        THEN d
        ELSE IF ~sleep_config.present
        THEN d
        ELSE IF sleep_config.sleep_timeout > 0
                /\ diff > Seconds(sleep_config.sleep_timeout)
        THEN sleep(d)
        ELSE IF sleep_config.dim_timeout > 0 /\ d.sleep_status # DIM
                /\ diff > Seconds(sleep_config.dim_timeout)
        THEN [set_brightness(d, sleep_config.dim_brightness) EXCEPT !.sleep_status = DIM]
        ELSE d


\* ------------------------------------------- the page element, unrendered
\* Python's None, as an entry of buttons_raw and as the value of a slot; a
\* button is a record of the same fields
None == [kind |-> "none", index |-> 0, visibility |-> "True", state |-> ""]

\* a dict without keys
EmptyDict == [k \in {} |-> None]

\* PageElement.__init__
NewElement ==
    [button_raws |-> EmptyDict, button_elements |-> EmptyDict,
     changed_button_elements |-> EmptyDict]

\* the renderer part of the state, at rest in the models of the session
RendererAtRest ==
    /\ page_config = [buttons_raw |-> <<>>, id |-> Root]
    /\ system_buttons = [back |-> 0, previous |-> 0, next |-> 0]
    /\ all_states = "on"
    /\ last_page_number = 0
    /\ element = NewElement
    /\ returned = FALSE
    /\ layout = [resolved |-> EmptyDict, paginated |-> EmptyDict]

\* self._current_page_element = None
NoPageElement ==
    [page_config |-> [buttons_raw |-> <<>>, id |-> ""], button_raws |-> EmptyDict,
     live |-> FALSE, none |-> TRUE]

\* the device, dark: no slot shows a button
BlankDevice == [slot \in 0..(SlotsPerPage - 1) |-> None]

\* no set_buttons call
NothingSent == [call |-> "none", buttons |-> EmptyDict]

\* no render yet
NoRender == [log |-> <<>>, aborted |-> FALSE, icons |-> <<>>, drawn |-> <<>>]

\* the icons, at rest in the models that draw none
IconsAtRest ==
    /\ page_icons = <<>>
    /\ files = <<>>
    /\ generated = {}
    /\ requested = {}
    /\ download_tasks = <<>>
    /\ published = 0
    /\ last_render = NoRender
    /\ worker_calls = <<>>

\* the tasks of the session, not followed
TasksAtRest ==
    /\ session_tasks = {}
    /\ session = 0

\* a session that runs, with the configuration file as it was loaded
LoadAtRest ==
    /\ need_reload_all = FALSE
    /\ exited = FALSE

\* the screen part of the state, at rest in the models that send no buttons
ScreenAtRest ==
    /\ page_elements = [id \in {} |-> NewElement]
    /\ current_page_element = NoPageElement
    /\ device = BlankDevice
    /\ last_sent = NothingSent
    /\ icon_layers = <<>>
    /\ IconsAtRest
    /\ TasksAtRest
    /\ LoadAtRest

\* ------------------------------------------------------------- actions
\* the device before it is connected and the first configuration is loaded
Blank ==
    [configuration |-> NoConfiguration, pages_stack |-> <<>>, current_page_id |-> "",
     current_page_number |-> 0, sleep_status |-> WAKE, idle |-> 0,
     brightness |-> DefaultBrightness, displayed |-> <<>>, calls |-> <<>>,
     error |-> "none"]

\* _setup up to asyncio.gather: _reset(), then the initial reload_all()
setup(d, new_configuration) == reload_all(reset(d), new_configuration)

\* the actions a button may be configured with that keep the model within its bounds
Offered(act) ==
    /\ act.action = PAGE_GO_TO => Len(pages_stack) < MaxStack
    /\ act.action = PAGE_NEXT => current_page_number < MaxPageNumber

InitWith(configurations) ==
    \E new_configuration \in configurations :
        LET d == setup(Blank, new_configuration)
        IN  /\ configuration = d.configuration
            /\ pages_stack = d.pages_stack
            /\ current_page_id = d.current_page_id
            /\ current_page_number = d.current_page_number
            /\ sleep_status = d.sleep_status
            /\ idle = d.idle
            /\ brightness = d.brightness
            /\ displayed = d.displayed
            /\ calls = d.calls
            /\ is_ready = TRUE
            /\ button_index = NewLoop.button_index
            /\ is_holding = NewLoop.is_holding
            /\ hold_timer = NewLoop.hold_timer
            /\ press_index = NewLoop.press_index
            /\ press_age = NewLoop.press_age
            /\ timers = NewLoop.timers
            /\ read_pc = NewLoop.read_pc
            /\ tick_age = 0
            /\ down = {}
            /\ gesture = [s \in Slots |-> Untracked]
            /\ RendererAtRest
            /\ ScreenAtRest

\* the device reports that slot index went down
PressEvent(index) ==
    /\ is_ready /\ read_pc = "read" /\ index \notin down
    /\ LET r == button_action(Deck, Loop, index, TRUE, [action |-> NoAction, data |-> Root])
       IN  /\ Commit(r.d)
           /\ CommitLoop(r.l)
    /\ down' = down \cup {index}
    /\ gesture' = [gesture EXCEPT ![index] = IF sleep_status = WAKE THEN Started ELSE Untracked]
    /\ UNCHANGED <<is_ready, tick_age>>
    /\ UNCHANGED <<renderVars, screenVars>>

\* the device reports that slot index went up; a tap that raises ends the session
ReleaseEvent(index, actions) ==
    /\ is_ready /\ read_pc = "read" /\ index \in down
    /\ \E act \in actions :
        /\ Offered(act)
        /\ LET r == button_action(Deck, Loop, index, FALSE, act)
               g == [gesture EXCEPT ![index].released = TRUE,
                                    ![index].quick = @ \/ (gesture[index].awake
                                                           /\ ~gesture[index].released
                                                           /\ gesture[index].age < HoldThreshold)]
           IN  /\ Commit(r.d)
               /\ CommitLoop(r.l)
               /\ gesture' = Delivered(g, r.d, index)
               /\ is_ready' = (r.d.error = "none")
    /\ down' = down \ {index}
    /\ UNCHANGED tick_age
    /\ UNCHANGED <<renderVars, screenVars>>

\* the device reports once more that slot index is down, with no release before
RePressEvent(index) ==
    /\ is_ready /\ read_pc = "read" /\ index \in down
    /\ LET r == button_action(Deck, Loop, index, TRUE, [action |-> NoAction, data |-> Root])
       IN  /\ Commit(r.d)
           /\ CommitLoop(r.l)
    /\ UNCHANGED <<is_ready, tick_age, down, gesture>>
    /\ UNCHANGED <<renderVars, screenVars>>

\* the loop body goes on after the sleep of its wake-up
WakeFinish ==
    /\ is_ready /\ read_pc = "waking"
    /\ LET r == wake_finish(Deck, Loop)
       IN  /\ Commit(r.d)
           /\ CommitLoop(r.l)
    /\ UNCHANGED <<is_ready, tick_age, down, gesture>>
    /\ UNCHANGED <<renderVars, screenVars>>

\* a timer task has slept hold_threshold and runs hold_timer_callback; what the
\* callback raises ends the task, not the session
HoldTimerFire(task, actions) ==
    /\ is_ready /\ task \in DOMAIN timers /\ timers[task] >= HoldThreshold
    /\ \E act \in actions :
        /\ Offered(act)
        /\ LET r == hold_timer_callback(Deck, Loop, task, act)
           IN  /\ Commit(r.d)
               /\ CommitLoop(r.l)
               /\ gesture' = Delivered(gesture, r.d, button_index)
    /\ UNCHANGED <<is_ready, tick_age, down>>
    /\ UNCHANGED <<renderVars, screenVars>>

\* _keep_alive has slept a second
KeepAliveTick ==
    /\ is_ready /\ tick_age >= TickPeriod
    /\ Commit(keep_alive(Deck))
    /\ tick_age' = 0
    /\ UNCHANGED <<loopVars, is_ready, down, gesture>>
    /\ UNCHANGED <<renderVars, screenVars>>

\* half a second passes, unless a sleep that is over has not been served yet
Advance ==
    /\ is_ready /\ read_pc = "read" /\ tick_age < TickPeriod
    /\ \A t \in DOMAIN timers : timers[t] < HoldThreshold
    /\ idle' = Min(idle + 1, IdleCap(configuration))
    /\ press_age' = Min(press_age + 1, HoldThreshold)
    /\ timers' = [t \in DOMAIN timers |-> timers[t] + 1]
    /\ tick_age' = tick_age + 1
    /\ gesture' = [s \in Slots |->
                     IF gesture[s].awake /\ ~gesture[s].released
                     THEN [gesture[s] EXCEPT !.age = Min(@ + 1, HoldThreshold)]
                     ELSE gesture[s]]
    /\ calls' = <<>>
    /\ UNCHANGED <<configuration, pages_stack, current_page_id, current_page_number,
                   sleep_status, brightness, displayed, is_ready, button_index,
                   is_holding, hold_timer, press_index, read_pc, down>>
    /\ UNCHANGED <<renderVars, screenVars>>

\* _setup_hot_reload finds _need_reload_all set and the file loads into a valid configuration
HotReload(new_configuration, longest) ==
    /\ is_ready /\ Len(pages_stack) < longest
    /\ Commit(reload_all(Deck, new_configuration))
    /\ UNCHANGED <<loopVars, is_ready, tick_age, down, gesture>>
    /\ UNCHANGED <<renderVars, screenVars>>

\* _setup after the session's tasks failed: the next round of its loop
Reconnect(new_configuration) ==
    /\ ~is_ready
    /\ Commit(setup(Deck, new_configuration))
    /\ CommitLoop(NewLoop)
    /\ is_ready' = TRUE
    /\ tick_age' = 0
    /\ gesture' = [s \in Slots |-> Untracked]
    /\ UNCHANGED down
    /\ UNCHANGED <<renderVars, screenVars>>

\* The session of a configuration whose buttons call services: the input loop,
\* the hold timer, the keep-alive tick and the hot reload, over time.
Init == InitWith(PowerConfigurations)

Next ==
    \/ \E index \in Slots : PressEvent(index)
    \/ \E index \in Slots : ReleaseEvent(index, ServiceActions)
    \/ WakeFinish
    \/ \E task \in DOMAIN timers : HoldTimerFire(task, ServiceActions)
    \/ KeepAliveTick
    \/ Advance
    \/ \E new_configuration \in PowerConfigurations :
            HotReload(new_configuration, 1 + MaxReloads)

Spec == Init /\ [][Next]_vars

\* The same session with configurations that differ in their brightness: with
\* and without a sleep configuration that dims after a second.
LowBrightness == 50

BrightConfigurations ==
    [loaded : {TRUE}, brightness : {DefaultBrightness, LowBrightness}, pages : {PageIds},
     sleep : {NoSleep} \cup {config \in SleepConfigs :
                                /\ config.present /\ config.dim_timeout = 1
                                /\ config.sleep_timeout = MaxTimeout}]

InitBrightness == InitWith(BrightConfigurations)

NextBrightness ==
    \/ \E index \in Slots : PressEvent(index)
    \/ \E index \in Slots : ReleaseEvent(index, ServiceActions)
    \/ WakeFinish
    \/ \E task \in DOMAIN timers : HoldTimerFire(task, ServiceActions)
    \/ KeepAliveTick
    \/ Advance
    \/ \E new_configuration \in BrightConfigurations :
            HotReload(new_configuration, 1 + MaxReloads)

SpecBrightness == InitBrightness /\ [][NextBrightness]_vars

\* a task of asyncio.gather raises, e.g. the connection to Home Assistant is
\* lost: _setup prints the exception and the session is over
ConnectionLost ==
    /\ is_ready
    /\ is_ready' = FALSE
    /\ calls' = <<"traceback">>
    /\ UNCHANGED <<configuration, pages_stack, current_page_id, current_page_number,
                   sleep_status, idle, brightness, displayed, loopVars, tick_age, down,
                   gesture>>
    /\ UNCHANGED <<renderVars, screenVars>>

\* the buttons of the session of the reloads: to the root page and to the page "sub"
ReloadActions == {act \in ButtonActions : act.action = PAGE_GO_TO}

\* The session of one ordinary button that changes the location, over time, with hot reloads
\* among the configurations of two brightnesses and with sessions that end and
\* start again with the initial load.
NextReload ==
    \/ PressEvent(Button)
    \/ ReleaseEvent(Button, ReloadActions)
    \/ WakeFinish
    \/ \E task \in DOMAIN timers : HoldTimerFire(task, ReloadActions)
    \/ KeepAliveTick
    \/ Advance
    \/ \E new_configuration \in BrightConfigurations :
            HotReload(new_configuration, MaxStack)
    \/ ConnectionLost
    \/ \E new_configuration \in BrightConfigurations : Reconnect(new_configuration)

SpecReload == InitBrightness /\ [][NextReload]_vars

\* The session of one ordinary button whose device repeats the press report of a
\* slot that is held down.
NextRepeat ==
    \/ PressEvent(Button)
    \/ RePressEvent(Button)
    \/ ReleaseEvent(Button, ServiceActions)
    \/ WakeFinish
    \/ \E task \in DOMAIN timers : HoldTimerFire(task, ServiceActions)
    \/ KeepAliveTick
    \/ Advance
    \/ \E new_configuration \in PowerConfigurations :
            HotReload(new_configuration, 1 + MaxReloads)

SpecRepeat == Init /\ [][NextRepeat]_vars

\* The navigation: taps of an ordinary button with any action, hot reloads with
\* and without the page "sub", and the next session after a tap that raised.
InitNav == InitWith(NavConfigurations)

NextNav ==
    \/ PressEvent(Button)
    \/ ReleaseEvent(Button, ButtonActions)
    \/ \E new_configuration \in NavConfigurations : HotReload(new_configuration, MaxStack)
    \/ \E new_configuration \in NavConfigurations : Reconnect(new_configuration)

SpecNav == InitNav /\ [][NextNav]_vars


\* ---------------------------------------------------------- PageElement
\* the values of the attribute visibility: the default True, the boolean
\* False and None, and strings
Shown == {"True"}
HiddenForms == {"False", "'False'", "'hidden'"}
GoneForms == {"None", "'None'", "'gone'"}

\* the button declared at place index (from 0) of buttons_raw, with an entity_id
LogicalButton(index, visibility) ==
    [kind |-> "button", index |-> index, visibility |-> visibility, state |-> ""]

\* the lists buttons_raw of up to longest entries, each a null entry ("null") or
\* a button with one of the other values of entries as its visibility
ButtonLists(entries, longest) ==
    UNION {{[i \in 1..n |-> IF entry[i] = "null" THEN None
                            ELSE LogicalButton(i - 1, entry[i])] :
                entry \in [1..n -> entries]} : n \in 0..longest}

\* the button of a system button configuration
SystemButton(action) == [kind |-> action, index |-> 0, visibility |-> "True", state |-> ""]

\* the positions a system button is configured at: 0 for none, the first slot, the last slot
SystemButtonConfigs ==
    [back : {0, 1}, previous : {0, 1}, next : {0, 1, SlotsPerPage}]

\* back at the first slot, next at the last slot, previous at the first slot or nowhere
UsualSystemButtonConfigs ==
    {positions \in SystemButtonConfigs :
        positions.back = 1 /\ positions.next = SlotsPerPage}

LiveStates == {"on", "off"}

\* dict.get(key)
Get(dict, key) == IF key \in DOMAIN dict THEN dict[key] ELSE None

\* dict[key] = value
Put(dict, key, value) ==
    [k \in DOMAIN dict \cup {key} |-> IF k = key THEN value ELSE dict[k]]

\* _to_button_element: the ButtonElement of a button is known by its configuration
to_button_element(button) == button

shift_index_right(buttons, start_index) ==
    [k \in {j + (IF j >= start_index THEN 1 ELSE 0) : j \in DOMAIN buttons} |->
        buttons[IF k > start_index THEN k - 1 ELSE k]]

\* _insert_button_at that does not shift the buttons
insert_button_at_without_shift(e, button, index) ==
    [e EXCEPT !.button_raws = Put(@, index, button),
              !.button_elements = Put(@, index, to_button_element(button))]

insert_button_at(e, button, index) ==
    [e EXCEPT !.button_raws = Put(shift_index_right(@, index), index, button),
              !.button_elements = Put(shift_index_right(@, index), index,
                                      to_button_element(button))]

is_hidden(visibility) == visibility \in {"False", "'False'", "'hidden'"}

\* is_gone that knows None but not its strings
is_gone_for_None_only(visibility) == visibility = "None"

is_gone(visibility) == visibility \in {"None", "'None'", "'gone'"}

\* render_buttons, its first loop from the entry at index on: the state of the
\* entity is merged into the button, a hidden button becomes None in its slot,
\* a gone button is skipped
RECURSIVE resolve_buttons(_, _, _, _, _)
resolve_buttons(buttons_raw, states, index, total_skipped, e) ==
    IF index >= Len(buttons_raw)
    THEN e
    ELSE LET button == buttons_raw[index + 1]
             merged == [button EXCEPT !.state = states]
             resolved == IF is_hidden(merged.visibility) THEN None ELSE merged
             real_index == index - total_skipped
         IN  IF button = None
             THEN resolve_buttons(buttons_raw, states, index + 1, total_skipped,
                                  [e EXCEPT !.button_raws = Put(@, index, None)])
             ELSE IF is_gone(merged.visibility)
             THEN resolve_buttons(buttons_raw, states, index + 1, total_skipped + 1, e)
             ELSE resolve_buttons(buttons_raw, states, index + 1, total_skipped,
                                  [e EXCEPT !.button_raws = Put(@, real_index, resolved),
                                            !.button_elements =
                                                Put(@, real_index, to_button_element(resolved))])

\* render_buttons, its while loop from the page that starts at start on;
\* new_raws is the dict the loop reads the length of, refreshed at the end of a round
RECURSIVE paginate(_, _, _, _, _, _)
paginate(e, new_raws, start, tmp_page_number, positions, is_sub_page) ==
    IF start >= Cardinality(DOMAIN new_raws)
    THEN e
    ELSE LET with_back ==
                 IF is_sub_page /\ tmp_page_number = 1 /\ positions.back > 0
                 THEN insert_button_at(e, SystemButton(PAGE_BACK), start + (positions.back - 1))
                 ELSE e
             with_previous ==
                 IF tmp_page_number > 1 /\ positions.previous > 0
                 THEN insert_button_at(with_back, SystemButton(PAGE_PREVIOUS),
                                       start + (positions.previous - 1))
                 ELSE with_back
             with_next ==
                 IF start + SlotsPerPage < Cardinality(DOMAIN new_raws)
                 THEN insert_button_at(with_previous, SystemButton(PAGE_NEXT),
                                       start + (positions.next - 1))
                 ELSE with_previous
         IN  paginate(with_next, with_next.button_raws, start + SlotsPerPage,
                      tmp_page_number + 1, positions, is_sub_page)

\* the indices of the page with number number
buttons_range(number) == ((number - 1) * SlotsPerPage)..(number * SlotsPerPage - 1)

\* the dict of the entries of buttons at the indices of a page, keyed by slot
limit_buttons(buttons, number) ==
    [slot \in {index % SlotsPerPage : index \in DOMAIN buttons \cap buttons_range(number)} |->
        buttons[slot + (number - 1) * SlotsPerPage]]

\* the diff that compares with the slots of the first page, whatever the page number
changed_slots_of_the_first_page(old_raws, new_raws, number) ==
    {index \in 0..(SlotsPerPage - 1) : Get(old_raws, index) # Get(new_raws, index)}

\* the diff that passes over the slots that became empty
changed_slots_but_the_emptied(old_raws, new_raws, number) ==
    {index \in 0..(SlotsPerPage - 1) :
        /\ Get(new_raws, index + (number - 1) * SlotsPerPage) # None
        /\ Get(old_raws, index) # Get(new_raws, index + (number - 1) * SlotsPerPage)}

\* render_buttons, its diff: the slots whose button of the page number differs
\* from the button of the frame before
changed_slots(old_raws, new_raws, number) ==
    {index \in 0..(SlotsPerPage - 1) :
        Get(old_raws, index) # Get(new_raws, index + (number - 1) * SlotsPerPage)}

\* PageElement.render_buttons: the element after the call, what it returned, and
\* the dicts it went through: resolved (after the first loop) and paginated
render_buttons(e, config, positions, number, states) ==
    LET old_raws == e.button_raws
        resolved == resolve_buttons(config.buttons_raw, states, 0, 0,
                                    [e EXCEPT !.button_raws = EmptyDict,
                                              !.button_elements = EmptyDict])
        paginated == paginate(resolved, resolved.button_raws, 0, 1, positions,
                              config.id # Root)
        new_raws == paginated.button_raws
        changed == changed_slots(old_raws, new_raws, number)
        changed_button_elements ==
            [index \in changed |->
                to_button_element(Get(new_raws, index + (number - 1) * SlotsPerPage))]
    IN  [element |-> [button_raws |-> limit_buttons(new_raws, number),
                      button_elements |-> limit_buttons(paginated.button_elements, number),
                      changed_button_elements |-> changed_button_elements],
         returned |-> (changed # {}),
         resolved |-> resolved.button_raws,
         paginated |-> new_raws]

\* the page configurations and system buttons a PageElement is made and rendered
\* with; the back button of the root page is never inserted, so its position is
\* left at the first slot there
RenderInputs(entries, longest, positions) ==
    {input \in [buttons_raw : ButtonLists(entries, longest), id : PageIds,
                positions : positions] :
        input.id = Root => input.positions.back = 1}

\* the session part of the state, at rest while a page element is rendered alone
SessionAtRest ==
    /\ configuration = NoConfiguration
    /\ pages_stack = <<>>
    /\ current_page_id = ""
    /\ current_page_number = 0
    /\ sleep_status = WAKE
    /\ idle = 0
    /\ brightness = DefaultBrightness
    /\ displayed = <<>>
    /\ calls = <<>>
    /\ is_ready = FALSE
    /\ button_index = NewLoop.button_index
    /\ is_holding = NewLoop.is_holding
    /\ hold_timer = NewLoop.hold_timer
    /\ press_index = NewLoop.press_index
    /\ press_age = NewLoop.press_age
    /\ timers = NewLoop.timers
    /\ read_pc = NewLoop.read_pc
    /\ tick_age = 0
    /\ down = {}
    /\ gesture = [s \in Slots |-> Untracked]

\* a new PageElement of a page configuration, not rendered yet
InitRender(inputs) ==
    /\ SessionAtRest
    /\ \E input \in inputs :
            /\ page_config = [buttons_raw |-> input.buttons_raw, id |-> input.id]
            /\ system_buttons = input.positions
    /\ all_states = "on"
    /\ last_page_number = 0
    /\ element = NewElement
    /\ returned = FALSE
    /\ layout = [resolved |-> EmptyDict, paginated |-> EmptyDict]
    /\ ScreenAtRest

\* reload_page calls render_buttons of the element for the page number number,
\* with the live state states
Render(number, states) ==
    /\ LET r == render_buttons(element, page_config, system_buttons, number, states)
       IN  /\ element' = r.element
           /\ returned' = r.returned
           /\ layout' = [resolved |-> r.resolved, paginated |-> r.paginated]
    /\ last_page_number' = number
    /\ all_states' = states
    /\ UNCHANGED <<page_config, system_buttons, sessionVars, screenVars>>

\* One page element rendered again and again, at any page number and with any
\* live state: pages of buttons that are shown, hidden or gone.
InitRenderer ==
    InitRender(RenderInputs({"True", "False", "None"}, MaxButtons, UsualSystemButtonConfigs))

NextRenderer ==
    \E number \in 1..MaxPageNumber, states \in LiveStates : Render(number, states)

SpecRenderer == InitRenderer /\ [][NextRenderer]_vars

\* The layout of a page: the first page rendered, for pages with null entries
\* and shown, hidden and gone buttons, and every position of the system buttons.
InitLayout ==
    InitRender(RenderInputs({"null", "True", "False", "None"}, MaxButtons, SystemButtonConfigs))

NextLayout == Render(1, "on")

SpecLayout == InitLayout /\ [][NextLayout]_vars

\* The same for the root page with short lists of buttons of every form of visibility.
InitForms ==
    InitRender({input \in RenderInputs({"null"} \cup Shown \cup HiddenForms \cup GoneForms,
                                        MaxForms, UsualSystemButtonConfigs) :
                    input.id = Root /\ input.positions.previous = 1})

SpecForms == InitForms /\ [][NextLayout]_vars


\* ------------------------------------------------ reload_page, the buttons
\* The part of HomeDeck that reload_page works on, as a record like Deck.
Screen ==
    [page_elements |-> page_elements, current_page_element |-> current_page_element,
     device |-> device, sent |-> last_sent, system_buttons |-> system_buttons,
     all_states |-> all_states, current_page_id |-> current_page_id,
     current_page_number |-> current_page_number, sleep_status |-> sleep_status]

CommitScreen(screen) ==
    /\ page_elements' = screen.page_elements
    /\ current_page_element' = screen.current_page_element
    /\ device' = screen.device
    /\ last_sent' = screen.sent
    /\ system_buttons' = screen.system_buttons
    /\ all_states' = screen.all_states
    /\ current_page_id' = screen.current_page_id
    /\ current_page_number' = screen.current_page_number
    /\ sleep_status' = screen.sleep_status

\* PageElement.generate: what the device is given for each button, its name and
\* its icon; the icon stands for the state it is drawn from
generate(buttons) ==
    [index \in DOMAIN buttons |->
        IF buttons[index] = None
        THEN None
        ELSE [kind |-> buttons[index].kind, index |-> buttons[index].index,
              visibility |-> "", state |-> buttons[index].state]]

\* device.set_buttons(buttons): the page of the device is replaced
set_buttons(shown, buttons) == [slot \in DOMAIN shown |-> Get(buttons, slot)]

\* device.set_buttons(buttons, update_only=True): the slots given are replaced
set_buttons_update_only(shown, buttons) ==
    [slot \in DOMAIN shown |-> IF slot \in DOMAIN buttons THEN buttons[slot] ELSE shown[slot]]

\* PageElement.__eq__: the same page configuration and the same buttons, by value
page_element_eq(self, other) ==
    /\ ~other.none
    /\ self.page_config = other.page_config
    /\ self.button_raws = other.button_raws

\* Configuration.get_page_element: the PageElement of the page, one per page
\* of a Configuration
get_page_element(elements, page_id) == elements[page_id]

\* reload_page that sends the changed slots also when another page element is
\* on the device
reload_page_buttons_always_updating(screen, page_id, force) ==
    LET page == get_page_element(screen.page_elements, page_id)
        send(r) ==
            LET rendered == [page_config |-> page.page_config,
                             button_raws |-> r.element.button_raws,
                             live |-> TRUE, none |-> FALSE]
                after == [screen EXCEPT !.page_elements[page_id].element = r.element]
                buttons == generate(r.element.changed_button_elements)
            IN  IF force
                THEN [after EXCEPT
                        !.device = set_buttons(@, generate(r.element.button_elements)),
                        !.sent = [call |-> "set_buttons",
                                  buttons |-> generate(r.element.button_elements)],
                        !.current_page_element = rendered]
                ELSE IF ~r.returned
                THEN [after EXCEPT !.sent = NothingSent]
                ELSE [after EXCEPT !.device = set_buttons_update_only(@, buttons),
                                   !.sent = [call |-> "update_only", buttons |-> buttons],
                                   !.current_page_element = rendered]
    IN  CHOOSE after \in
            {send(r) : r \in {render_buttons(page.element, page.page_config,
                                             screen.system_buttons,
                                             screen.current_page_number,
                                             screen.all_states)}} : TRUE

\* HomeDeck.reload_page with the buttons it renders and sends. The element of
\* the page is rendered (r is what render_buttons gives); _current_page_element
\* is that very element if it is the live element of this page, and else an
\* element that the call leaves as it was.
reload_page_buttons(screen, page_id, force) ==
    LET page == get_page_element(screen.page_elements, page_id)
        send(r) ==
            LET rendered == [page_config |-> page.page_config,
                             button_raws |-> r.element.button_raws,
                             live |-> TRUE, none |-> FALSE]
                current == IF /\ screen.current_page_element.live
                              /\ screen.current_page_element.page_config.id = page_id
                           THEN rendered
                           ELSE screen.current_page_element
                same == ~current.none /\ page_element_eq(current, rendered)
                after == [screen EXCEPT !.page_elements[page_id].element = r.element,
                                        !.current_page_element = current]
            IN  IF ~force /\ same /\ ~r.returned
                THEN [after EXCEPT !.sent = NothingSent]
                ELSE IF force \/ ~same
                THEN LET buttons == generate(r.element.button_elements)
                     IN  [after EXCEPT !.device = set_buttons(@, buttons),
                                       !.sent = [call |-> "set_buttons", buttons |-> buttons],
                                       !.current_page_element = rendered]
                ELSE LET buttons == generate(r.element.changed_button_elements)
                     IN  [after EXCEPT !.device = set_buttons_update_only(@, buttons),
                                       !.sent = [call |-> "update_only", buttons |-> buttons],
                                       !.current_page_element = rendered]
    IN  CHOOSE after \in
            {send(r) : r \in {render_buttons(page.element, page.page_config,
                                             screen.system_buttons,
                                             screen.current_page_number,
                                             screen.all_states)}} : TRUE

\* page_go_to and the other page_go methods, for the buttons: the location
\* changes and reload_current_page() is called
page_go_buttons(screen, page_id, number) ==
    reload_page_buttons([screen EXCEPT !.current_page_id = page_id,
                                       !.current_page_number = number],
                        page_id, FALSE)

\* the lists of buttons of a page of the configurations the screen is explored
\* with: one button, or as many as need a second page
ShownLists == {list \in ButtonLists(Shown, MaxButtons) : Len(list) \in {1, MaxButtons}}

\* the new Configuration of reload_all: a new PageElement for each page
NewPageElements(lists) ==
    [id \in PageIds |-> [page_config |-> [buttons_raw |-> lists[id], id |-> id],
                         element |-> NewElement]]

\* reload_all, for the buttons: the new configuration, _wake_up(), and
\* page_go_to('$root', 1); the element on the device is one of the old configuration
reload_all_buttons(screen, lists) ==
    page_go_buttons([screen EXCEPT !.page_elements = NewPageElements(lists),
                                   !.current_page_element.live = FALSE,
                                   !.sleep_status = WAKE],
                    Root, 1)

\* the screen after _reset() and the first reload_all()
InitScreen ==
    /\ \E lists \in [PageIds -> ShownLists] :
        LET blank == [page_elements |-> NewPageElements(lists),
                      current_page_element |-> NoPageElement,
                      device |-> BlankDevice, sent |-> NothingSent,
                      system_buttons |-> [back |-> 1, previous |-> 1, next |-> SlotsPerPage],
                      all_states |-> "on", current_page_id |-> "",
                      current_page_number |-> 0, sleep_status |-> WAKE]
        IN  \E screen \in {reload_all_buttons(blank, lists)} :
            /\ page_elements = screen.page_elements
            /\ current_page_element = screen.current_page_element
            /\ device = screen.device
            /\ last_sent = screen.sent
            /\ system_buttons = screen.system_buttons
            /\ all_states = screen.all_states
            /\ current_page_id = screen.current_page_id
            /\ current_page_number = screen.current_page_number
            /\ sleep_status = screen.sleep_status
    /\ configuration = NoConfiguration
    /\ pages_stack = <<>>
    /\ idle = 0
    /\ brightness = DefaultBrightness
    /\ displayed = <<>>
    /\ calls = <<>>
    /\ is_ready = TRUE
    /\ button_index = NewLoop.button_index
    /\ is_holding = NewLoop.is_holding
    /\ hold_timer = NewLoop.hold_timer
    /\ press_index = NewLoop.press_index
    /\ press_age = NewLoop.press_age
    /\ timers = NewLoop.timers
    /\ read_pc = NewLoop.read_pc
    /\ tick_age = 0
    /\ down = {}
    /\ gesture = [s \in Slots |-> Untracked]
    /\ page_config = [buttons_raw |-> <<>>, id |-> Root]
    /\ last_page_number = 0
    /\ element = NewElement
    /\ returned = FALSE
    /\ layout = [resolved |-> EmptyDict, paginated |-> EmptyDict]
    /\ icon_layers = <<>>
    /\ IconsAtRest
    /\ TasksAtRest
    /\ LoadAtRest

\* what the actions of the screen leave alone
ScreenFrame ==
    UNCHANGED <<configuration, pages_stack, idle, brightness, displayed, calls, loopVars,
                is_ready, tick_age, down, gesture, page_config, last_page_number, element,
                returned, layout, icon_layers, iconVars, loadVars, taskVars>>

\* a tap on a button with a page action: the location changes, the page is reloaded
PageChanged(page_id, number) ==
    /\ <<page_id, number>> # <<current_page_id, current_page_number>>
    /\ \E screen \in {page_go_buttons(Screen, page_id, number)} : CommitScreen(screen)
    /\ ScreenFrame

\* _ha_on_state_changed that reloads the page whatever the power state
ha_on_state_changed_also_asleep(screen) ==
    reload_page_buttons(screen, screen.current_page_id, FALSE)

\* _ha_on_state_changed: reload_current_page() unless the device sleeps
ha_on_state_changed(screen) ==
    IF screen.sleep_status # SLEEP
    THEN reload_page_buttons(screen, screen.current_page_id, FALSE)
    ELSE [screen EXCEPT !.sent = NothingSent]

\* the live state has changed and _ha_on_state_changed is called
HaStateChanged(states) ==
    /\ states # all_states
    /\ \E screen \in {[Screen EXCEPT !.all_states = states]} :
       \E after \in {ha_on_state_changed(screen)} : CommitScreen(after)
    /\ ScreenFrame

\* DECK_RELOAD and DECK_FORCE_RELOAD of the event bus
ReloadEvent(force) ==
    /\ \E screen \in {reload_page_buttons(Screen, current_page_id, force)} :
            CommitScreen(screen)
    /\ ScreenFrame

\* _sleep() of the tick or of a hold on the small window
FallAsleep ==
    /\ sleep_status # SLEEP
    /\ CommitScreen([Screen EXCEPT !.sleep_status = SLEEP, !.sent = NothingSent])
    /\ ScreenFrame

\* a release while asleep: force_reload_current_page(), then _wake_up()
WakeByRelease ==
    /\ sleep_status = SLEEP
    /\ \E screen \in {reload_page_buttons(Screen, current_page_id, TRUE)} :
            CommitScreen([screen EXCEPT !.sleep_status = WAKE])
    /\ ScreenFrame

\* reload_all of the hot reload with a valid configuration
HotReloadButtons(lists) ==
    /\ \E screen \in {reload_all_buttons(Screen, lists)} : CommitScreen(screen)
    /\ ScreenFrame

\* The screen of a session: the pages of the configuration rendered and sent to
\* the device as the location, the live state, the power state and the
\* configuration change.
NextScreen ==
    \/ \E page_id \in PageIds, number \in 1..MaxPageNumber : PageChanged(page_id, number)
    \/ \E states \in LiveStates : HaStateChanged(states)
    \/ \E force \in BOOLEAN : ReloadEvent(force)
    \/ FallAsleep
    \/ WakeByRelease
    \/ \E lists \in [PageIds -> ShownLists] : HotReloadButtons(lists)

SpecScreen == InitScreen /\ [][NextScreen]_vars


\* ---------------------------------------------------------------- IconLayer
\* The dict of a layer holds its keys in the order of their insertion: that of
\* the configuration file, then that of the defaults of _normalize_icon. It
\* is a sequence of keys with their values here.
AttributeKeys == {"icon_color", "icon_padding", "text"}
AttributeValues == {"ffffff", "FFFFFF", "8"}

\* str(value).upper()
upper(value) == IF value = "ffffff" THEN "FFFFFF" ELSE value

\* self._hash = None
NoHash == [source |-> "", name |-> "", joined |-> <<>>, sign |-> 0]

\* IconLayer.__init__ of a blank layer: the dict it is given, no fingerprint yet
NewIconLayer(available) == [icon |-> <<>>, hash |-> NoHash, available |-> available]

\* dict.keys()
keys(icon) == {icon[i].key : i \in DOMAIN icon}

\* icon[key] = value for a key the dict has not yet
setdefault(icon, key, value) == Append(icon, [key |-> key, value |-> value])

\* the fingerprint of a layer that is the same with and without its file
IconLayer_hash_whatever_the_file(layer) ==
    [source |-> "blank", name |-> "",
     joined |-> [i \in DOMAIN layer.icon |->
                    <<layer.icon[i].key, upper(layer.icon[i].value)>>],
     sign |-> 1]

\* IconLayer.__hash__: hash() of the source, the name and every field with its
\* value in upper case, joined in the order of the dict; negated for a layer
\* whose file is missing. hash() of a string is the string here: two strings
\* that differ have two hashes.
IconLayer_hash(layer) ==
    LET icon_fields == [i \in DOMAIN layer.icon |-> layer.icon[i].key]
        sorted_fields == [i \in DOMAIN icon_fields |->
                            [key |-> icon_fields[i], value |-> layer.icon[i].value]]
    IN  [source |-> "blank", name |-> "",
         joined |-> [i \in DOMAIN sorted_fields |->
                        <<sorted_fields[i].key, upper(sorted_fields[i].value)>>],
         sign |-> IF layer.available THEN 1 ELSE -1]

LayerNames == {"A", "B"}

\* two layers under construction, each of a file that exists or not
InitLayers ==
    /\ icon_layers \in [LayerNames -> {NewIconLayer(available) : available \in BOOLEAN}]
    /\ page_elements = [id \in {} |-> NewElement]
    /\ current_page_element = NoPageElement
    /\ device = BlankDevice
    /\ last_sent = NothingSent
    /\ IconsAtRest
    /\ TasksAtRest
    /\ LoadAtRest
    /\ RendererAtRest
    /\ SessionAtRest

\* a key of the configuration file or a default is added to the dict of a layer
SetAttribute(name, key, value) ==
    /\ icon_layers[name].hash = NoHash
    /\ key \notin keys(icon_layers[name].icon)
    /\ icon_layers' = [icon_layers EXCEPT ![name].icon = setdefault(@, key, value)]
    /\ UNCHANGED <<sessionVars, renderVars, page_elements, current_page_element, device,
                   last_sent, iconVars, loadVars, taskVars>>

\* hash(layer), the first: the fingerprint is computed and kept
HashLayer(name) ==
    /\ icon_layers[name].hash = NoHash
    /\ icon_layers' = [icon_layers EXCEPT ![name].hash = IconLayer_hash(icon_layers[name])]
    /\ UNCHANGED <<sessionVars, renderVars, page_elements, current_page_element, device,
                   last_sent, iconVars, loadVars, taskVars>>

NextLayers ==
    \/ \E name \in LayerNames, key \in AttributeKeys, value \in AttributeValues :
            SetAttribute(name, key, value)
    \/ \E name \in LayerNames : HashLayer(name)

SpecLayers == InitLayers /\ [][NextLayers]_vars


\* ----------------------------------------------------- Icon, IconProvider
\* The layers of the icons, as dicts after _normalize_icon, with the file the
\* layer is drawn from and the URL a remote layer is downloaded from.
TextLayer ==
    [source |-> "text", icon |-> <<[key |-> "text", value |-> "8"]>>,
     file_path |-> "", download_url |-> ""]
LocalLayer ==
    [source |-> "local", icon |-> <<[key |-> "icon", value |-> "local:logo.png"]>>,
     file_path |-> "logo.png", download_url |-> ""]
MdiLayer ==
    [source |-> "mdi", icon |-> <<[key |-> "icon", value |-> "mdi:home"]>>,
     file_path |-> "mdi/home.svg", download_url |-> "MaterialDesign/svg/home.svg"]

\* a file: not there, an image, or not an image
Absent == "absent"
Good == "good"
Malformed == "malformed"

\* the layers of the icon of a button, and the pages of such buttons
Icons == {<<TextLayer>>, <<MdiLayer>>, <<TextLayer, MdiLayer>>, <<MdiLayer, LocalLayer>>,
          <<LocalLayer, TextLayer>>}
IconPages == UNION {[1..n -> Icons] : n \in 1..MaxIcons}

\* icon.id of a remote layer: its fingerprint, a number, no URL
IconId == "IconLayer.__hash__()"

\* the icons of the page, the disk and the icon provider, as a record like Deck
IconWorld ==
    [files |-> files, generated |-> generated, requested |-> requested,
     download_tasks |-> download_tasks, published |-> published,
     render |-> last_render, worker_calls |-> worker_calls]

CommitIcons(w) ==
    /\ files' = w.files
    /\ generated' = w.generated
    /\ requested' = w.requested
    /\ download_tasks' = w.download_tasks
    /\ published' = w.published
    /\ last_render' = w.render
    /\ worker_calls' = w.worker_calls

\* IconLayer.is_available; a layer without a file (text, blank) is available
is_available(file_path, disk) == file_path = "" \/ disk[file_path] # Absent

\* Icon.__init__, for one layer: the IconLayer of its source with its fingerprint;
\* a remote layer whose file is there becomes a LocalIconLayer of that file
new_icon_layer(layer, disk) ==
    LET available == is_available(layer.file_path, disk)
    IN  [class |-> IF layer.source = "text" THEN "TextIconLayer"
                   ELSE IF layer.source = "mdi" /\ ~available THEN "RemoteIconLayer"
                   ELSE "LocalIconLayer",
         source |-> layer.source, file_path |-> layer.file_path,
         download_url |-> layer.download_url,
         hash |-> IconLayer_hash([icon |-> layer.icon, available |-> available])]

\* os.path.exists of a generated file: that of a layer, or that of an icon
stored(cache, file, key) == \E entry \in cache : entry.file = file /\ entry.key = key

\* a step of the render, for last_render.log
Logged(w, op, key) == [w EXCEPT !.render.log = Append(@, [op |-> op, key |-> key])]

\* img.save(self._generated_path): the bitmap of the layer is stored
save_layer(w, obj) ==
    [w EXCEPT !.generated = @ \cup {[file |-> "layer", key |-> <<obj.hash>>,
                                      drawn |-> <<obj.source>>, pending |-> FALSE]}]

\* _request_icon that downloads the file before it returns
request_icon_awaiting_the_download(w, obj) ==
    [w EXCEPT !.files[obj.file_path] = Good, !.requested = @ \cup {obj.download_url}]

\* IconProvider._request_icon: a download task is created unless the URL is in
\* _requested; the task has not started when the call returns
request_icon(w, obj) ==
    IF obj.download_url \in w.requested
    THEN w
    ELSE [Logged(w, "request", <<obj.hash>>) EXCEPT
            !.download_tasks = Append(@, [download_url |-> obj.download_url,
                                          file_path |-> obj.file_path,
                                          pc |-> "created"])]

\* rasterize of the three kinds of layer. image is the layer drawn, "" for
\* None; a source file that is no image raises
rasterize(w, obj) ==
    LET called == Logged(w, "rasterize", <<obj.hash>>)
    IN  CASE obj.class = "TextIconLayer" ->
                [w |-> save_layer(called, obj), image |-> obj.source]
          [] obj.class = "LocalIconLayer" ->
                IF w.files[obj.file_path] = Good
                THEN [w |-> save_layer(called, obj), image |-> obj.source]
                ELSE [w |-> [called EXCEPT !.render.aborted = TRUE], image |-> ""]
          [] OTHER ->
                [w |-> request_icon(called, obj), image |-> ""]

\* get_image that draws the layer whether its bitmap is stored or not
get_image_without_cache(w, obj) == rasterize(w, obj)

\* IconLayer.get_image of a layer just constructed, with the cache enabled:
\* the stored bitmap if there is one, else rasterize()
get_image(w, obj) ==
    IF stored(w.generated, "layer", <<obj.hash>>)
    THEN [w |-> Logged(w, "open", <<obj.hash>>), image |-> obj.source]
    ELSE rasterize(w, obj)

\* Icon.__init__, the loop that pastes the layers, from layer i on
RECURSIVE paste_layers(_, _, _)
paste_layers(w, objs, i) ==
    IF i > Len(objs) \/ w.render.aborted
    THEN w
    ELSE LET got == get_image(w, objs[i])
         IN  paste_layers(IF got.image = ""
                          THEN got.w
                          ELSE [got.w EXCEPT !.render.drawn = Append(@, got.image)],
                          objs, i + 1)

\* Icon.__init__ and what generate() takes of it: the layers are constructed;
\* the icon is composed and stored unless a file of its name is stored; the
\* button gets the stored icon. pending notes that a file of a layer was not
\* there when the icon was stored.
Icon_init(w, layers) ==
    LET objs == [i \in DOMAIN layers |-> new_icon_layer(layers[i], w.files)]
        key == [i \in DOMAIN objs |-> objs[i].hash]
        given(cache) == CHOOSE entry \in cache : entry.file = "icon" /\ entry.key = key
        composed(drawn) ==
            [file |-> "icon", key |-> key, drawn |-> drawn,
             pending |-> \E i \in DOMAIN layers :
                            ~is_available(layers[i].file_path, w.files)]
    IN  IF stored(w.generated, "icon", key)
        THEN [w EXCEPT !.render.icons = Append(@, given(w.generated))]
        ELSE LET pasted == paste_layers([w EXCEPT !.render.drawn = <<>>], objs, 1)
             IN  IF pasted.render.aborted
                 THEN pasted
                 ELSE [Logged(pasted, "compose", key) EXCEPT
                        !.generated = @ \cup {composed(pasted.render.drawn)},
                        !.render.icons = Append(@, composed(pasted.render.drawn))]

\* PageElement.generate: the icon of each button in turn; an exception ends it
RECURSIVE generate_icons(_, _, _)
generate_icons(w, buttons, i) ==
    IF i > Len(buttons) \/ w.render.aborted
    THEN w
    ELSE generate_icons(Icon_init(w, buttons[i]), buttons, i + 1)

\* the tasks but the one at place i
WithoutTask(running, i) == SubSeq(running, 1, i - 1) \o SubSeq(running, i + 1, Len(running))

\* _create_download_task up to its first await that suspends: the URL is added
\* to _requested, the icon is put on the queue and taken from it by _worker,
\* which returns if the file is there and else sends the request
create_download_task(w, i) ==
    LET asked == [w EXCEPT !.requested = @ \cup {w.download_tasks[i].download_url}]
    IN  IF is_available(w.download_tasks[i].file_path, w.files)
        THEN [asked EXCEPT !.download_tasks = WithoutTask(@, i),
                           !.worker_calls = <<"task_done">>]
        ELSE [asked EXCEPT !.download_tasks[i].pc = "fetching",
                           !.worker_calls = <<"get">>]

\* _worker that publishes the reload whatever the response
worker_response_always_publishing(w, i, status, content) ==
    [w EXCEPT !.published = @ + 1, !.worker_calls = <<"publish", "task_done">>,
              !.requested = @ \ {IconId}, !.download_tasks = WithoutTask(@, i)]

\* _worker from the response on: status 200 writes the file and publishes
\* DECK_FORCE_RELOAD; another status does neither, and a timeout raises; the
\* finally clause removes icon.id from _requested
worker_response(w, i, status, content) ==
    LET fetched == IF status = "200"
                   THEN [w EXCEPT !.files[w.download_tasks[i].file_path] = content,
                                  !.published = @ + 1,
                                  !.worker_calls = <<"write", "publish", "task_done">>]
                   ELSE [w EXCEPT !.worker_calls = <<"task_done">>]
    IN  [fetched EXCEPT !.requested = @ \ {IconId},
                        !.download_tasks = WithoutTask(@, i)]

\* the first run of the icon model: the page, the local file, and the remote
\* file if an earlier run has left it
InitIcons ==
    /\ page_icons \in IconPages
    /\ files \in [{LocalLayer.file_path, MdiLayer.file_path} -> {Absent, Good, Malformed}]
    /\ files[LocalLayer.file_path] # Absent
    /\ generated = {}
    /\ requested = {}
    /\ download_tasks = <<>>
    /\ published = 0
    /\ last_render = NoRender
    /\ worker_calls = <<>>
    /\ icon_layers = <<>>
    /\ page_elements = [id \in {} |-> NewElement]
    /\ current_page_element = NoPageElement
    /\ device = BlankDevice
    /\ last_sent = NothingSent
    /\ LoadAtRest
    /\ TasksAtRest
    /\ RendererAtRest
    /\ SessionAtRest

\* what the actions of the icon model leave alone
IconFrame ==
    UNCHANGED <<sessionVars, renderVars, page_elements, current_page_element, device,
                last_sent, icon_layers, page_icons, loadVars, taskVars>>

\* reload_page of the page, on an input, a state event or a reload event: the
\* icon of every button is made
RenderPage ==
    /\ \E w \in {generate_icons([IconWorld EXCEPT !.render = NoRender], page_icons, 1)} :
        /\ Len(w.download_tasks) <= MaxTasks
        /\ CommitIcons([w EXCEPT !.worker_calls = <<>>])
    /\ IconFrame

\* the event loop runs the oldest task created
TaskStarts ==
    /\ \E i \in DOMAIN download_tasks :
        /\ download_tasks[i].pc = "created"
        /\ \A j \in 1..(i - 1) : download_tasks[j].pc # "created"
        /\ CommitIcons(create_download_task(IconWorld, i))
    /\ IconFrame

\* the response to the request of a task, or its timeout
FetchEnds(i, status, content) ==
    /\ i \in DOMAIN download_tasks
    /\ download_tasks[i].pc = "fetching"
    /\ CommitIcons(worker_response(IconWorld, i, status, content))
    /\ IconFrame

NextIcons ==
    \/ RenderPage
    \/ TaskStarts
    \/ \E i \in 1..MaxTasks, status \in {"200", "404", "timeout"},
          content \in {Good, Malformed} : FetchEnds(i, status, content)

SpecIcons == InitIcons /\ [][NextIcons]_vars


\* ------------------------------------------------- reload_all, every outcome
\* What assets/configuration.yml gives when reload_all reads it: a valid
\* configuration, a configuration that is not valid, or an exception of open,
\* yaml.safe_load, deep_merge or Configuration().
ConfigurationFiles(configurations) ==
    [result : {"valid"}, configuration : configurations]
        \cup [result : {"invalid", "raises"}, configuration : {NoConfiguration}]

\* reload_all that wakes the device before it looks at the new configuration
reload_all_from_file_waking_first(d, file) ==
    IF file.result = "valid" THEN reload_all(d, file.configuration) ELSE wake_up(d)

\* HomeDeck.reload_all: an exception is printed and False returned; a
\* configuration that is not valid ends the process if there is none yet, and
\* else is dropped; a valid one is taken as in reload_all above
reload_all_from_file(d, file) ==
    CASE file.result = "raises" -> Log(d, "traceback")
      [] file.result = "invalid" ->
            IF ~d.configuration.loaded
            THEN [d EXCEPT !.error = "SystemExit"]
            ELSE Log(d, "return")
      [] OTHER -> reload_all(d, file.configuration)

\* the process at the start of _setup: nothing connected, nothing loaded
InitLoad ==
    /\ configuration = Blank.configuration
    /\ pages_stack = Blank.pages_stack
    /\ current_page_id = Blank.current_page_id
    /\ current_page_number = Blank.current_page_number
    /\ sleep_status = Blank.sleep_status
    /\ idle = Blank.idle
    /\ brightness = Blank.brightness
    /\ displayed = Blank.displayed
    /\ calls = Blank.calls
    /\ is_ready = FALSE
    /\ button_index = NewLoop.button_index
    /\ is_holding = NewLoop.is_holding
    /\ hold_timer = NewLoop.hold_timer
    /\ press_index = NewLoop.press_index
    /\ press_age = NewLoop.press_age
    /\ timers = NewLoop.timers
    /\ read_pc = NewLoop.read_pc
    /\ tick_age = 0
    /\ down = {}
    /\ gesture = [s \in Slots |-> Untracked]
    /\ need_reload_all = TRUE
    /\ exited = FALSE
    /\ page_elements = [id \in {} |-> NewElement]
    /\ current_page_element = NoPageElement
    /\ device = BlankDevice
    /\ last_sent = NothingSent
    /\ icon_layers = <<>>
    /\ IconsAtRest
    /\ TasksAtRest
    /\ RendererAtRest

\* what the actions of the loading leave alone
LoadFrame ==
    UNCHANGED <<renderVars, page_elements, current_page_element, device, last_sent,
                icon_layers, iconVars, taskVars>>

\* a round of the loop of _setup: _reset(), the device and Home Assistant
\* connect, reload_all(), then _is_ready = True and the tasks of the session
\* start, whatever reload_all returned; sys.exit(1) ends the process
Setup(file) ==
    /\ ~is_ready /\ ~exited
    /\ \E d \in {reload_all_from_file(reset(Deck), file)} :
        /\ Commit(d)
        /\ exited' = (d.error = "SystemExit")
        /\ is_ready' = (d.error # "SystemExit")
    /\ need_reload_all' = FALSE
    /\ CommitLoop(NewLoop)
    /\ tick_age' = 0
    /\ down' = {}
    /\ gesture' = [s \in Slots |-> Untracked]
    /\ LoadFrame

\* ConfigurationFileChangeHandler: the file has changed
FileChanged ==
    /\ is_ready /\ ~need_reload_all
    /\ need_reload_all' = TRUE
    /\ calls' = <<>>
    /\ UNCHANGED <<configuration, pages_stack, current_page_id, current_page_number,
                   sleep_status, idle, brightness, displayed, loopVars, is_ready, tick_age,
                   down, gesture, exited>>
    /\ LoadFrame

\* _setup_hot_reload finds _need_reload_all set and calls reload_all()
HotReloadFile(file) ==
    /\ is_ready /\ need_reload_all
    /\ file.result = "valid" => Len(pages_stack) < MaxStack
    /\ \E d \in {reload_all_from_file(Deck, file)} :
        /\ Commit(d)
        /\ exited' = (d.error = "SystemExit")
        /\ is_ready' = (d.error # "SystemExit")
    /\ need_reload_all' = FALSE
    /\ UNCHANGED <<loopVars, tick_age, down, gesture>>
    /\ LoadFrame

\* a task of the session reads self._configuration.sleep of no configuration:
\* the tasks end and _setup starts its next round
TasksFail ==
    /\ is_ready /\ ~configuration.loaded
    /\ is_ready' = FALSE
    /\ calls' = <<"traceback">>
    /\ UNCHANGED <<configuration, pages_stack, current_page_id, current_page_number,
                   sleep_status, idle, brightness, displayed, loopVars, tick_age, down,
                   gesture, loadVars>>
    /\ LoadFrame

\* the valid configuration of a file: both pages, no sleep
LoadConfigurations == {c \in NavConfigurations : c.pages = PageIds}

\* the buttons of the session of the loading: to a page and back
LoadActions == {act \in ButtonActions : act.action \in {PAGE_GO_TO, PAGE_BACK}}

\* The process from its start: the rounds of _setup and the hot reloads with a
\* configuration file of every kind, and between them the session of a
\* configuration without sleep: its buttons, their holds and the time.
NextLoad ==
    \/ \E file \in ConfigurationFiles(LoadConfigurations) : Setup(file)
    \/ FileChanged
    \/ \E file \in ConfigurationFiles(LoadConfigurations) : HotReloadFile(file)
    \/ TasksFail
    \/ configuration.loaded /\ \E index \in Slots : PressEvent(index)
    \/ configuration.loaded /\ \E index \in Slots : ReleaseEvent(index, LoadActions)
    \/ configuration.loaded /\ \E task \in DOMAIN timers : HoldTimerFire(task, LoadActions)
    \/ configuration.loaded /\ KeepAliveTick
    \/ configuration.loaded /\ Advance

SpecLoad == InitLoad /\ [][NextLoad]_vars

\* ------------------------------------------------ the tasks of asyncio.gather
\* _ha.listen(), _read_packets(), _keep_alive() and _setup_hot_reload()
TaskNames == {"listen", "read_packets", "keep_alive", "hot_reload"}

\* asyncio.gather of the round number of _setup: four new tasks
gather(number) == [session : {number}, name : TaskNames]

\* the tasks alive that were started by a round of _setup before the current one
TasksOfEndedSessions == {task \in session_tasks : task.session # session}

\* the configurations of the sessions whose tasks are followed: with a sleep configuration
TaskConfigurations == {c \in PowerConfigurations : c.sleep.present}

\* A round of the loop of _setup with a file that loads: _reset(), reload_all(),
\* _is_ready = True, asyncio.gather. The round sleeps reconnect_delay = 3 s
\* before it, so the _keep_alive of the round before, which wakes each second,
\* has seen _is_ready false by then.
NextSession(new_configuration) ==
    /\ ~is_ready /\ ~exited /\ session < MaxSessions
    /\ [session |-> session, name |-> "keep_alive"] \notin session_tasks
    /\ Commit(setup(Deck, new_configuration))
    /\ CommitLoop(NewLoop)
    /\ is_ready' = TRUE
    /\ tick_age' = 0
    /\ down' = {}
    /\ gesture' = [s \in Slots |-> Untracked]
    /\ need_reload_all' = FALSE
    /\ session' = session + 1
    /\ session_tasks' = session_tasks \cup gather(session + 1)
    /\ UNCHANGED <<exited, renderVars, page_elements, current_page_element, device,
                   last_sent, icon_layers, iconVars>>

\* A task of the session raises: asyncio.gather raises in _setup and leaves the
\* other tasks running; _setup sets _is_ready = False, closes the device and
\* disconnects from Home Assistant, which ends listen(). Whether read_packet()
\* of the closed device ends _read_packets is left open (input_ends).
TaskFails(name, input_ends) ==
    /\ is_ready /\ name \in TaskNames \ {"hot_reload"}
    /\ is_ready' = FALSE
    /\ session_tasks' =
            session_tasks \ ([session : {session},
                              name : {name, "listen"}
                                        \cup (IF input_ends THEN {"read_packets"} ELSE {})])
    /\ calls' = <<"traceback">>
    /\ UNCHANGED <<configuration, pages_stack, current_page_id, current_page_number,
                   sleep_status, idle, brightness, displayed, loopVars, tick_age, down,
                   gesture, loadVars, session>>
    /\ UNCHANGED <<renderVars, page_elements, current_page_element, device, last_sent,
                   icon_layers, iconVars>>

\* _keep_alive of a session that has ended wakes from its asyncio.sleep(1): it
\* calls keep_alive() of the closed device, which may raise, goes through the
\* body of its loop and leaves the loop at the test of _is_ready
KeepAliveAfterTheEnd(raises) ==
    /\ ~is_ready
    /\ [session |-> session, name |-> "keep_alive"] \in session_tasks
    /\ Commit(IF raises THEN Log(Deck, "traceback")
                        ELSE keep_alive(Log(Deck, "keep_alive")))
    /\ session_tasks' = session_tasks \ {[session |-> session, name |-> "keep_alive"]}
    /\ tick_age' = 0
    /\ UNCHANGED <<loopVars, is_ready, down, gesture, loadVars, session>>
    /\ UNCHANGED <<renderVars, page_elements, current_page_element, device, last_sent,
                   icon_layers, iconVars>>

\* _setup_hot_reload of a session that has ended finds _need_reload_all set
\* while the next session runs, and calls reload_all()
HotReloadAfterTheEnd(file) ==
    /\ \E task \in TasksOfEndedSessions : task.name = "hot_reload"
    /\ HotReloadFile(file)

\* The sessions of a process one after the other: the tasks of a session, the
\* failure of one of them, what the others do then, and the next session; the
\* tick and the hot reload of the running session, over time.
NextTasks ==
    \/ \E new_configuration \in TaskConfigurations : NextSession(new_configuration)
    \/ \E name \in TaskNames, input_ends \in BOOLEAN : TaskFails(name, input_ends)
    \/ \E raises \in BOOLEAN : KeepAliveAfterTheEnd(raises)
    \/ FileChanged
    \/ \E file \in ConfigurationFiles(TaskConfigurations) : HotReloadFile(file)
    \/ \E file \in ConfigurationFiles(TaskConfigurations) : HotReloadAfterTheEnd(file)
    \/ KeepAliveTick
    \/ Advance

SpecTasks == InitLoad /\ [][NextTasks]_vars


\* =============================================================== claims
Location == <<current_page_id, current_page_number>>

\* the handler that just ran delivered a tap or hold to a button with this action
Triggered(action) == Len(calls) >= 2 /\ calls[2] = action

\* C1: in every state of an active session the page stack is not empty; going
\* back at the floor leaves ($root, 1) on it.
C1_StackNeverEmpty == is_ready => pages_stack # <<>>

\* the entry below the top of the stack, which page_go_back is to return to
EntryBelow ==
    IF Len(pages_stack) >= 2 THEN pages_stack[Len(pages_stack) - 1] ELSE <<Root, 1>>

C3_PreviousNextOnlyRenumber ==
    [][(Triggered(PAGE_PREVIOUS)' \/ Triggered(PAGE_NEXT)') =>
          /\ is_ready'
          /\ Len(pages_stack') = Len(pages_stack)
          /\ \A i \in 1..Len(pages_stack) :
                /\ pages_stack'[i][1] = pages_stack[i][1]
                /\ i < Len(pages_stack) => pages_stack'[i] = pages_stack[i]
          /\ current_page_id' = current_page_id
          /\ current_page_number' = IF Triggered(PAGE_NEXT)'
                                    THEN current_page_number + 1
                                    ELSE Max(1, current_page_number - 1)
          /\ pages_stack' # <<>>
          /\ Top(pages_stack')[2] = current_page_number']_vars

\* C4: page_go_to on an existing page pushes (page, number) when it appends (a
\* go_to button) and makes (page, number) the top entry when it does not (the
\* call of page_go_back); either way the page is rendered again.
C4_GoToPushesOrReplacesTop ==
    [][/\ (Triggered(PAGE_GO_TO)' /\ has_page(configuration, calls'[3])) =>
            /\ pages_stack' = Append(pages_stack, <<calls'[3], 1>>)
            /\ Location' = <<calls'[3], 1>>
            /\ \E i \in 1..Len(calls') : calls'[i] = "render"
       /\ (Triggered(PAGE_BACK)' /\ has_page(configuration, EntryBelow[1])) =>
            /\ Location' = EntryBelow
            /\ \E i \in 1..Len(calls') : calls'[i] = "render"
            /\ pages_stack' # <<>>
            /\ Top(pages_stack') = EntryBelow]_vars

\* C3 where the stack is not empty: the part of C3 that holds
C3_OnNonEmptyStack ==
    [][(pages_stack # <<>> /\ (Triggered(PAGE_PREVIOUS)' \/ Triggered(PAGE_NEXT)')) =>
          /\ is_ready'
          /\ Len(pages_stack') = Len(pages_stack)
          /\ \A i \in 1..Len(pages_stack) :
                /\ pages_stack'[i][1] = pages_stack[i][1]
                /\ i < Len(pages_stack) => pages_stack'[i] = pages_stack[i]
          /\ current_page_id' = current_page_id
          /\ current_page_number' = IF Triggered(PAGE_NEXT)'
                                    THEN current_page_number + 1
                                    ELSE Max(1, current_page_number - 1)
          /\ Top(pages_stack')[2] = current_page_number']_vars

\* C4 where page_go_back leaves an entry on the stack: the part of C4 that holds
C4_OffTheFloor ==
    [][/\ (Triggered(PAGE_GO_TO)' /\ has_page(configuration, calls'[3])) =>
            /\ pages_stack' = Append(pages_stack, <<calls'[3], 1>>)
            /\ Location' = <<calls'[3], 1>>
            /\ \E i \in 1..Len(calls') : calls'[i] = "render"
       /\ (Triggered(PAGE_BACK)' /\ Len(pages_stack) >= 2
              /\ has_page(configuration, EntryBelow[1])) =>
            /\ Location' = EntryBelow
            /\ \E i \in 1..Len(calls') : calls'[i] = "render"
            /\ Top(pages_stack') = EntryBelow]_vars

\* C5: while awake, a press of a slot followed by its release before the hold
\* threshold has passed delivers exactly one tap and no hold to that slot.
C5_QuickReleaseIsOneTap ==
    \A index \in Slots :
        (gesture[index].awake /\ gesture[index].released /\ gesture[index].quick) =>
            (gesture[index].taps = 1 /\ gesture[index].holds = 0)

\* a slot pressed while awake was released within the threshold and got its tap
C5_Witness ==
    \E index \in Slots :
        /\ gesture[index].awake /\ gesture[index].released /\ gesture[index].quick
        /\ gesture[index].taps = 1
        /\ calls # <<>> /\ calls[1] = TAP /\ button_index = index

\* C6: while awake, a press whose hold timer fires gets exactly one hold, and
\* the release of that slot then delivers nothing.
C6_HoldThenSilentRelease ==
    \A index \in Slots :
        (gesture[index].awake /\ gesture[index].holds >= 1) =>
            (gesture[index].holds = 1 /\ gesture[index].taps = 0)

\* C7: at most one hold timer is asleep, the one hold_timer refers to: every
\* press and every release cancels the timer before it, so no cancelled timer
\* is left to deliver a hold.
C7_OneTimerPending == DOMAIN timers \subseteq {hold_timer} \ {0}

\* a second slot was pressed while the timer of the first was asleep
C7_Witness ==
    /\ down = Slots
    /\ Cardinality(DOMAIN timers) = 1
    /\ \E index \in Slots : gesture[index].awake /\ ~gesture[index].released
                              /\ gesture[index].age < HoldThreshold
                              /\ button_index # index

\* C8: a repeated press report of a slot that is held down starts no gesture: it
\* does not restart the hold timer, and the press gets no second hold and no
\* tap after its hold.
C8_RepeatedPressIsNoGesture ==
    /\ [][\A index \in Slots :
            RePressEvent(index) =>
                (timers' = timers /\ press_age' = press_age /\ is_holding' = is_holding)]_vars
    /\ [](\A index \in Slots :
            gesture[index].awake =>
                (gesture[index].holds <= 1
                 /\ ~(gesture[index].holds >= 1 /\ gesture[index].taps >= 1)))

\* the timeouts of the configuration, in the unit of time
DimTimeout == Seconds(configuration.sleep.dim_timeout)
SleepTimeout == Seconds(configuration.sleep.sleep_timeout)

\* C9 as claimed: with a dim timeout D > 0 the tick moves Awake to Dimmed, at
\* the dim brightness, once the idle time has reached D (idle >= D), unless the
\* sleep timeout is reached too.
C9_TickDimsAtTimeout ==
    [][(/\ KeepAliveTick
        /\ sleep_status = WAKE /\ configuration.sleep.present
        /\ DimTimeout > 0 /\ idle >= DimTimeout
        /\ ~(SleepTimeout > 0 /\ idle >= SleepTimeout)) =>
          (sleep_status' = DIM /\ brightness' = configuration.sleep.dim_brightness)]_vars

\* C9, amended: with a dim timeout D > 0 the tick moves Awake to Dimmed, at the
\* dim brightness, once it finds the idle time greater than D (idle > D) and
\* the sleep timeout not exceeded; a tick at idle <= D does not dim.
C9_TickDimsPastTimeout ==
    [][(/\ KeepAliveTick
        /\ sleep_status = WAKE /\ configuration.sleep.present /\ DimTimeout > 0) =>
          /\ (idle > DimTimeout /\ ~(SleepTimeout > 0 /\ idle > SleepTimeout)) =>
                (sleep_status' = DIM /\ brightness' = configuration.sleep.dim_brightness)
          /\ idle <= DimTimeout => sleep_status' # DIM]_vars

\* the tick has just dimmed an idle device whose sleep timeout is still ahead
C9_Witness ==
    /\ sleep_status = DIM /\ calls = <<"set_brightness">> /\ tick_age = 0
    /\ brightness = configuration.sleep.dim_brightness
    /\ DimTimeout > 0 /\ idle > DimTimeout
    /\ SleepTimeout > DimTimeout

\* C10 as claimed: with a sleep timeout S > 0 the tick moves Awake or Dimmed to
\* Asleep, at brightness 0, once the idle time since the last input has reached
\* S (idle >= S), also when the dim timeout is reached at the same tick.
C10_TickSleepsAtTimeout ==
    [][(/\ KeepAliveTick
        /\ sleep_status \in {WAKE, DIM} /\ configuration.sleep.present
        /\ SleepTimeout > 0 /\ idle >= SleepTimeout) =>
          (sleep_status' = SLEEP /\ brightness' = 0)]_vars

\* C10, amended: with a sleep timeout S > 0 the tick moves Awake or Dimmed to
\* Asleep, at brightness 0, once it finds the idle time since the last input
\* greater than S (idle > S), also when the dim timeout is exceeded at the same
\* tick; a tick at idle <= S does not sleep, and dimming leaves the idle time as
\* it is.
C10_TickSleepsPastTimeout ==
    [][(/\ KeepAliveTick
        /\ sleep_status \in {WAKE, DIM} /\ configuration.sleep.present) =>
          /\ (SleepTimeout > 0 /\ idle > SleepTimeout) =>
                (sleep_status' = SLEEP /\ brightness' = 0)
          /\ ~(SleepTimeout > 0 /\ idle > SleepTimeout) => sleep_status' # SLEEP
          /\ sleep_status' = DIM => idle' = idle]_vars

\* the tick has just put to sleep a device that it had dimmed before
C10_Witness ==
    /\ sleep_status = SLEEP /\ calls = <<"set_brightness">> /\ tick_age = 0
    /\ brightness = 0
    /\ DimTimeout > 0 /\ SleepTimeout > DimTimeout

\* the handler that just ran delivered a tap or a hold
Interacted == \E i \in 1..Len(calls) : calls[i] \in {TAP, HOLD}

\* C11: a press while the device is dimmed makes it awake at the configured
\* brightness and restarts the idle clock, all within the handling of the press.
C11_PressWakesFromDim ==
    [][\A index \in Slots :
          (PressEvent(index) /\ sleep_status = DIM) =>
              /\ sleep_status' = WAKE
              /\ brightness' = configuration.brightness
              /\ calls' = <<"set_brightness">>
              /\ idle' = 0]_vars

\* a press has just woken a dimmed device
C11_Witness ==
    /\ sleep_status = WAKE /\ calls = <<"set_brightness">> /\ idle = 0
    /\ brightness = configuration.brightness
    /\ button_index \in down /\ hold_timer # 0 /\ press_age = 0
    /\ ~gesture[button_index].awake

\* C12: while the device is asleep a press leaves the power state and the
\* brightness alone and starts no hold timer; the device leaves Asleep by input
\* only after a release; and neither a press nor a release handled while asleep
\* is delivered as a tap or a hold.
C12_AsleepPressesAreDiscarded ==
    [][/\ \A index \in Slots :
            (PressEvent(index) /\ sleep_status = SLEEP) =>
                /\ sleep_status' = SLEEP /\ brightness' = brightness
                /\ timers' = NoTimers /\ hold_timer' = 0
                /\ ~Interacted'
       /\ \A index \in Slots :
            (ReleaseEvent(index, ServiceActions) /\ sleep_status = SLEEP) => ~Interacted'
       /\ (sleep_status = SLEEP /\ sleep_status' # SLEEP) =>
            \/ WakeFinish
            \/ \E new_configuration \in PowerConfigurations :
                    HotReload(new_configuration, 1 + MaxReloads)]_vars

\* C12 for a device whose configuration has a sleep configuration
C12_WithSleepConfiguration ==
    [][/\ \A index \in Slots :
            (PressEvent(index) /\ sleep_status = SLEEP /\ configuration.sleep.present) =>
                /\ sleep_status' = SLEEP /\ brightness' = brightness
                /\ timers' = NoTimers /\ hold_timer' = 0
                /\ ~Interacted'
       /\ \A index \in Slots :
            (/\ ReleaseEvent(index, ServiceActions)
             /\ sleep_status = SLEEP /\ configuration.sleep.present) => ~Interacted'
       /\ (sleep_status = SLEEP /\ sleep_status' # SLEEP) =>
            \/ WakeFinish
            \/ \E new_configuration \in PowerConfigurations :
                    HotReload(new_configuration, 1 + MaxReloads)]_vars

\* C13: a wake from Asleep by input happens in two steps: the release sends the
\* whole current page to the device (forced, not update_only) and leaves the
\* device asleep and dark; only the step after it restores the brightness and
\* makes the device awake.
C13_RedrawBeforeWake ==
    [][/\ (read_pc = "read" /\ read_pc' = "waking") =>
            /\ calls' = <<"render", "set_buttons">>
            /\ displayed' = Location'
            /\ sleep_status = SLEEP /\ sleep_status' = SLEEP
            /\ brightness' = brightness
       /\ (sleep_status = SLEEP /\ sleep_status' = WAKE /\ ~("render" \in {calls'[i] : i \in 1..Len(calls')})) =>
            /\ read_pc = "waking" /\ read_pc' = "read"
            /\ calls' = <<"set_brightness">>
            /\ brightness' = configuration.brightness]_vars

\* the release of a press has woken a device asleep, after its redraw
C13_Witness ==
    /\ sleep_status = WAKE /\ calls = <<"set_brightness">> /\ idle = 0
    /\ brightness = configuration.brightness
    /\ hold_timer = 0 /\ button_index \notin down /\ button_index \in Slots
    /\ displayed = Location

\* the frame of a page element: the button of each slot, None for an empty slot
Frame(e) == [slot \in 0..(SlotsPerPage - 1) |-> Get(e.button_raws, slot)]

\* C14: a render_buttons call with the page number and the live state of the
\* call before it, on the same page element, returns false and leaves no
\* changed slot, at every page number.
C14_SecondRenderChangesNothing ==
    [][\A number \in 1..MaxPageNumber, states \in LiveStates :
          (Render(number, states) /\ number = last_page_number /\ states = all_states) =>
              /\ returned' = FALSE
              /\ element'.changed_button_elements = EmptyDict
              /\ Frame(element') = Frame(element)]_vars

\* a page after the first, with a previous button and a button of the page, was
\* rendered without a change
C14_Witness ==
    /\ last_page_number > 1 /\ returned = FALSE
    /\ \E slot \in DOMAIN element.button_raws :
            element.button_raws[slot].kind = PAGE_PREVIOUS
    /\ \E slot \in DOMAIN element.button_raws :
            element.button_raws[slot].kind = "button"

\* C15: after a render_buttons call the changed slots are exactly the slots
\* whose button in the new frame differs from the button of the same slot in
\* the frame of the call before (an absent slot is empty), each with its new
\* button, and the call returns true iff there is a changed slot.
C15_ChangedSlotsAreTheDifference ==
    [][\A number \in 1..MaxPageNumber, states \in LiveStates :
          Render(number, states) =>
              LET changed == {slot \in 0..(SlotsPerPage - 1) :
                                Frame(element')[slot] # Frame(element)[slot]}
              IN  /\ DOMAIN element'.changed_button_elements = changed
                  /\ \A slot \in changed :
                        element'.changed_button_elements[slot] = Frame(element')[slot]
                  /\ returned' = (changed # {})]_vars

\* a render after which one slot has become empty, one has got another button
\* and one is as before
C15_Witness ==
    /\ returned
    /\ \E slot \in DOMAIN element.changed_button_elements :
            element.changed_button_elements[slot] = None
    /\ \E slot \in DOMAIN element.changed_button_elements :
            element.changed_button_elements[slot] # None
    /\ \E slot \in 0..(SlotsPerPage - 1) :
            slot \notin DOMAIN element.changed_button_elements

\* the buttons_raw entry declared at place index, from 0
Declared(index) == page_config.buttons_raw[index + 1]

\* the places of buttons_raw that hold a button and not null
DeclaredButtons == {index \in 0..(Len(page_config.buttons_raw) - 1) : Declared(index) # None}

\* the gone buttons declared before place index
GoneBefore(index) ==
    Cardinality({before \in DeclaredButtons :
                    before < index /\ Declared(before).visibility \in GoneForms})

\* the keys of a dict of buttons that hold the button declared at place index
KeysOf(buttons, index) ==
    {key \in DOMAIN buttons : buttons[key].kind = "button" /\ buttons[key].index = index}

\* C17: after the first loop of render_buttons a hidden button (False, 'False',
\* 'hidden') has its slot, which is empty; a gone button (None, 'None', 'gone')
\* has no slot; and the slot of every button is its place in the declaration
\* less the number of gone buttons before it, so a hidden button moves no other.
C17_HiddenKeepsSlotGoneShifts ==
    last_page_number > 0 =>
        \A index \in DeclaredButtons :
            LET slot == index - GoneBefore(index)
                button == Declared(index)
            IN  /\ button.visibility \in GoneForms => KeysOf(layout.resolved, index) = {}
                /\ button.visibility \in HiddenForms =>
                        /\ KeysOf(layout.resolved, index) = {}
                        /\ slot \in DOMAIN layout.resolved
                        /\ layout.resolved[slot] = None
                /\ button.visibility \in Shown => KeysOf(layout.resolved, index) = {slot}

\* a page was rendered whose buttons are gone by the string 'gone', hidden by
\* the string 'False' and shown, in this order: the shown one is in the second slot
C17_Witness ==
    /\ last_page_number > 0
    /\ Len(page_config.buttons_raw) >= 3
    /\ Declared(0).visibility = "'gone'"
    /\ Declared(1).visibility = "'False'"
    /\ Declared(2) # None /\ Declared(2).visibility \in Shown
    /\ Get(layout.resolved, 0) = None
    /\ KeysOf(layout.resolved, 2) = {1}

\* C18: after pagination every shown button of the page is at exactly one index
\* of the layout, which is a slot of a page (index >= 0), and the buttons are
\* in the order of their declaration: no insertion of a system button has
\* overwritten one.
C18_PaginationDropsNoButton ==
    last_page_number > 0 =>
        /\ \A index \in DeclaredButtons :
                Declared(index).visibility \in Shown =>
                    \E key \in DOMAIN layout.paginated :
                        /\ key >= 0
                        /\ KeysOf(layout.paginated, index) = {key}
        /\ \A first, second \in DeclaredButtons :
                first < second =>
                    \A key \in KeysOf(layout.paginated, first) :
                        \A other \in KeysOf(layout.paginated, second) : key < other

\* a sub page was paginated with a back, a next and a previous button inserted
\* before its last shown button, which is on the second page
C18_Witness ==
    /\ last_page_number > 0
    /\ \A action \in {PAGE_BACK, PAGE_NEXT, PAGE_PREVIOUS} :
            \E key \in DOMAIN layout.paginated : layout.paginated[key].kind = action
    /\ \E index \in DeclaredButtons :
            \E key \in KeysOf(layout.paginated, index) :
                /\ key >= SlotsPerPage
                /\ key - index >= 3

\* the pages of the layout that have a button on a later page
PagesWithButtonsBeyond ==
    {number \in 1..(MaxButtons + 1) :
        \E key \in DOMAIN layout.paginated :
            key >= number * SlotsPerPage /\ layout.paginated[key].kind = "button"}

\* C19: with the next button configured at the last slot, a page of the layout
\* that has buttons of the page beyond its own slots has the next button in
\* its last slot.
C19_NextButtonWhereButtonsFollow ==
    (last_page_number > 0 /\ system_buttons.next = SlotsPerPage) =>
        \A number \in PagesWithButtonsBeyond :
            Get(layout.paginated, number * SlotsPerPage - 1).kind = PAGE_NEXT

\* C19 for a root page without null entries and without a previous button, where
\* no button is inserted before the next button: the part of C19 that holds
C19_WithoutBackAndPrevious ==
    (/\ last_page_number > 0 /\ system_buttons.next = SlotsPerPage
     /\ page_config.id = Root /\ system_buttons.previous = 0
     /\ \A index \in 0..(Len(page_config.buttons_raw) - 1) : Declared(index) # None) =>
        \A number \in PagesWithButtonsBeyond :
            Get(layout.paginated, number * SlotsPerPage - 1).kind = PAGE_NEXT

\* the frame of the last render_buttons call: that of the element of the
\* current page, as the device is given it
LatestFrame ==
    LET buttons == generate(page_elements[current_page_id].element.button_raws)
    IN  [slot \in 0..(SlotsPerPage - 1) |-> Get(buttons, slot)]

\* what a reload_page call has sent, given whether it was forced, the element
\* the device displayed before it and the frame this page element had before
\* it: nothing, the changed slots, or the whole frame
SentOnlyWhatChanged(force, displayed_element, previous_raws) ==
    LET page == page_elements'[current_page_id']
        raws == page.element.button_raws
        equal == /\ ~displayed_element.none
                 /\ displayed_element.page_config = page.page_config
                 /\ \/ displayed_element.live /\ displayed_element.page_config.id = page.page_config.id
                    \/ displayed_element.button_raws = raws
        changed == {slot \in 0..(SlotsPerPage - 1) :
                        Get(previous_raws, slot) # Get(raws, slot)}
    IN  /\ (~force /\ equal /\ changed = {}) =>
            /\ last_sent'.call = "none"
            /\ device' = device
        /\ (~force /\ equal /\ changed # {}) =>
            /\ last_sent'.call = "update_only"
            /\ DOMAIN last_sent'.buttons = changed
            /\ \A slot \in changed : last_sent'.buttons[slot] = LatestFrame'[slot]
        /\ (force \/ ~equal) =>
            /\ last_sent'.call = "set_buttons"
            /\ \A slot \in 0..(SlotsPerPage - 1) :
                    Get(last_sent'.buttons, slot) = LatestFrame'[slot]

\* the frame the element of the page to reload had before the step
PreviousRaws == page_elements[current_page_id'].element.button_raws

C20_FingerprintIgnoresInsertionOrder ==
    \A a, b \in DOMAIN icon_layers :
        (/\ icon_layers[a].hash # NoHash
         /\ icon_layers[b].hash # NoHash
         /\ icon_layers[a].available = icon_layers[b].available
         /\ {icon_layers[a].icon[i] : i \in DOMAIN icon_layers[a].icon}
                = {icon_layers[b].icon[i] : i \in DOMAIN icon_layers[b].icon})
        => icon_layers[a].hash = icon_layers[b].hash

\* supporting C20: two layers whose keys were inserted in the same order, with
\* the same values, have the same fingerprint
C20_SameOrderSameFingerprint ==
    \A a, b \in DOMAIN icon_layers :
        (/\ icon_layers[a].hash # NoHash
         /\ icon_layers[b].hash # NoHash
         /\ icon_layers[a].available = icon_layers[b].available
         /\ icon_layers[a].icon = icon_layers[b].icon)
        => icon_layers[a].hash = icon_layers[b].hash

\* the layers a and b have the same keys in the same order and the same file,
\* and differ in the value of exactly one key
DifferInOneValue(a, b) ==
    /\ icon_layers[a].available = icon_layers[b].available
    /\ DOMAIN icon_layers[a].icon = DOMAIN icon_layers[b].icon
    /\ \A i \in DOMAIN icon_layers[a].icon :
            icon_layers[a].icon[i].key = icon_layers[b].icon[i].key
    /\ Cardinality({i \in DOMAIN icon_layers[a].icon :
                        icon_layers[a].icon[i].value # icon_layers[b].icon[i].value}) = 1

\* C21: two layers that differ in the value of one attribute, be it only in
\* the letter case of that value, have different fingerprints.
C21_OneValueChangesFingerprint ==
    \A a, b \in DOMAIN icon_layers :
        (/\ icon_layers[a].hash # NoHash
         /\ icon_layers[b].hash # NoHash
         /\ DifferInOneValue(a, b))
        => icon_layers[a].hash # icon_layers[b].hash

\* supporting C21: two layers that differ in one value by more than its letter
\* case have different fingerprints
C21_BeyondLetterCase ==
    \A a, b \in DOMAIN icon_layers :
        (/\ icon_layers[a].hash # NoHash
         /\ icon_layers[b].hash # NoHash
         /\ DifferInOneValue(a, b)
         /\ \E i \in DOMAIN icon_layers[a].icon :
                upper(icon_layers[a].icon[i].value) # upper(icon_layers[b].icon[i].value))
        => icon_layers[a].hash # icon_layers[b].hash

\* the file of the remote layer is there
RemoteFileThere == files[MdiLayer.file_path] # Absent

\* the layers of the button at place b of the page include the layer
HasLayer(b, layer) == \E i \in DOMAIN page_icons[b] : page_icons[b][i] = layer

\* C22: the fingerprint of a remote layer whose file is absent differs from its
\* fingerprint once the file is there, and a render with the file there gives
\* no button an icon that was stored while the file was absent.
C22_PendingNeverReturnedOnceAvailable ==
    [][RenderPage =>
            /\ new_icon_layer(MdiLayer, [files EXCEPT ![MdiLayer.file_path] = Absent]).hash
                    # new_icon_layer(MdiLayer, [files EXCEPT ![MdiLayer.file_path] = Good]).hash
            /\ RemoteFileThere =>
                    \A b \in DOMAIN last_render'.icons : ~last_render'.icons[b].pending]_vars

\* the icon with the remote layer was stored while the file was absent, and
\* after the download the last render has given the button the icon with the
\* layer drawn
C22_Witness ==
    /\ RemoteFileThere
    /\ \E entry \in generated : entry.file = "icon" /\ entry.pending
    /\ \E b \in DOMAIN last_render.icons :
            /\ HasLayer(b, MdiLayer)
            /\ ~last_render.icons[b].pending
            /\ \E i \in DOMAIN last_render.icons[b].drawn :
                    last_render.icons[b].drawn[i] = "mdi"

\* the steps of the last render before step i that stored the file of the key
StoredBefore(log, i, op, key) ==
    \E j \in 1..(i - 1) :
        /\ log[j].op = op /\ log[j].key = key
        /\ stored(generated', IF op = "compose" THEN "icon" ELSE "layer", key)

\* C23: a render rasterizes no layer and composes no icon whose file is
\* stored, before the render or by an earlier step of it; a layer whose bitmap
\* is stored is opened instead.
C23_StoredIsNotProducedAgain ==
    [][RenderPage =>
            \A i \in DOMAIN last_render'.log :
                LET step == last_render'.log[i]
                IN  /\ step.op = "rasterize" =>
                        /\ ~stored(generated, "layer", step.key)
                        /\ ~StoredBefore(last_render'.log, i, "rasterize", step.key)
                    /\ step.op = "compose" =>
                        /\ ~stored(generated, "icon", step.key)
                        /\ ~StoredBefore(last_render'.log, i, "compose", step.key)
                    /\ step.op = "open" =>
                        \/ stored(generated, "layer", step.key)
                        \/ StoredBefore(last_render'.log, i, "rasterize", step.key)]_vars

\* a render has rasterized the text layer for one button and opened its stored
\* bitmap for another
C23_Witness ==
    \E i, j \in DOMAIN last_render.log :
        /\ i < j
        /\ last_render.log[i].op = "rasterize"
        /\ last_render.log[j].op = "open"
        /\ last_render.log[i].key = last_render.log[j].key

\* C24: no two download tasks alive are for the same URL.
C24_OneFetchPerUrl ==
    \A i, j \in DOMAIN download_tasks :
        i # j => download_tasks[i].download_url # download_tasks[j].download_url

\* supporting C24: a request for a URL of _requested creates no task
C24_RequestedIsDropped ==
    [][(RenderPage /\ MdiLayer.download_url \in requested) =>
            download_tasks' = download_tasks]_vars

\* C25: after a fetch has ended in a status other than 200 or in a timeout,
\* and no other task is fetching the URL, the file is absent as before and the
\* URL is no longer in _requested.
C25_FailedFetchFreesTheUrl ==
    [][\A i \in 1..MaxTasks, status \in {"404", "timeout"} :
            (FetchEnds(i, status, Good) /\ Len(download_tasks) = 1) =>
                /\ files' = files
                /\ download_tasks[i].download_url \notin requested']_vars

\* supporting C25: a failed fetch leaves the file as it was
C25_FailedFetchWritesNothing ==
    [][\A i \in 1..MaxTasks, status \in {"404", "timeout"} :
            FetchEnds(i, status, Good) => files' = files]_vars

\* C26: a fetch answered with 200 writes the file, then publishes the reload,
\* once; a fetch that fails writes no file and publishes nothing.
C26_PublishOnceAfterWrite ==
    [][\A i \in 1..MaxTasks, status \in {"200", "404", "timeout"},
         content \in {Good, Malformed} :
            FetchEnds(i, status, content) =>
                IF status = "200"
                THEN /\ files'[download_tasks[i].file_path] = content
                     /\ published' = published + 1
                     /\ worker_calls' = <<"write", "publish", "task_done">>
                ELSE /\ files' = files
                     /\ published' = published
                     /\ worker_calls' = <<"task_done">>]_vars

\* a fetch has written the file and then published the reload, the first
C26_Witness ==
    /\ published = 1
    /\ files[MdiLayer.file_path] = Good
    /\ worker_calls = <<"write", "publish", "task_done">>

\* C27: a render writes no file, starts and ends no download task and adds no
\* URL to _requested: the tasks it finds are as they were and the ones it
\* adds are created, not started; and it draws no remote layer whose file is
\* absent.
C27_RenderAwaitsNoFetch ==
    [][RenderPage =>
            /\ files' = files
            /\ requested' = requested
            /\ published' = published
            /\ Len(download_tasks') >= Len(download_tasks)
            /\ \A i \in DOMAIN download_tasks' :
                    IF i \in DOMAIN download_tasks
                    THEN download_tasks'[i] = download_tasks[i]
                    ELSE download_tasks'[i].pc = "created"
            /\ ~RemoteFileThere =>
                    \A b \in DOMAIN last_render'.icons :
                        \A i \in DOMAIN last_render'.icons[b].drawn :
                            last_render'.icons[b].drawn[i] # "mdi"]_vars

\* a render has found the file of the remote layer absent, has created a task
\* and has given the button an icon with its other layer
C27_Witness ==
    /\ ~RemoteFileThere
    /\ \E i \in DOMAIN last_render.log : last_render.log[i].op = "request"
    /\ \E i \in DOMAIN download_tasks : download_tasks[i].pc = "created"
    /\ \E b \in DOMAIN last_render.icons :
            HasLayer(b, MdiLayer) /\ last_render.icons[b].drawn = <<"text">>

\* C28: a render gives every button of the page its icon, whatever the source
\* files of the layers are: a layer whose file is no image is left blank.
C28_MalformedLayerIsBlank ==
    last_render # NoRender =>
        /\ ~last_render.aborted
        /\ Len(last_render.icons) = Len(page_icons)

\* supporting C28: while every source file there is an image, a render gives
\* every button its icon
C28_WithGoodFiles ==
    [][(RenderPage /\ \A path \in DOMAIN files : files[path] # Malformed) =>
            /\ ~last_render'.aborted
            /\ Len(last_render'.icons) = Len(page_icons)]_vars

\* C29: a reload_all that fails, the new configuration being not valid or the
\* loading raising, while a configuration is loaded leaves the configuration,
\* the page stack, the location, the power state, the brightness and the
\* frame on the device as they were.
C29_FailedReloadChangesNothing ==
    [][\A file \in ConfigurationFiles(LoadConfigurations) :
            (HotReloadFile(file) /\ file.result # "valid" /\ configuration.loaded) =>
                /\ UNCHANGED <<configuration, pages_stack, current_page_id,
                               current_page_number, sleep_status, brightness, displayed>>
                /\ is_ready' /\ ~exited']_vars

\* a reload has failed while the device was asleep on the page "sub" with two
\* entries on the stack
C29_Witness ==
    /\ calls \in {<<"traceback">>, <<"return">>}
    /\ is_ready /\ configuration.loaded
    /\ sleep_status = SLEEP /\ brightness = 0
    /\ current_page_id = "sub" /\ Len(pages_stack) >= 2

\* C30: the tasks of a session run only with a configuration loaded.
C30_NoSessionWithoutConfiguration == is_ready => configuration.loaded

\* supporting C30: an initial load of a configuration that is not valid ends
\* the process
C30_InvalidAtStartExits ==
    [][Setup([result |-> "invalid", configuration |-> NoConfiguration]) =>
            exited' /\ ~is_ready']_vars

\* the power state and what the device was told
Power == <<sleep_status, brightness>>

\* C31: once a session has ended its _keep_alive calls keep_alive() of the
\* device no more and changes neither the brightness nor the power state, and
\* while a session runs no task of a session before it is alive.
C31_EndedSessionTasksStop ==
    /\ [](is_ready => TasksOfEndedSessions = {})
    /\ [][\A raises \in BOOLEAN :
            KeepAliveAfterTheEnd(raises) =>
                (Power' = Power /\ "keep_alive" \notin {calls'[i] : i \in 1..Len(calls')})]_vars

\* the places of buttons_raw whose entry stays: a null entry, or a button that is not gone
RemainingPlaces ==
    {index \in 0..(Len(page_config.buttons_raw) - 1) :
        Declared(index) = None \/ Declared(index).visibility \notin GoneForms}

\* what the first loop of render_buttons has at the indices 0..M-1 for the M
\* entries that stay, in the order of their declaration
RemainingAreContiguous ==
    /\ DOMAIN layout.resolved = 0..(Cardinality(RemainingPlaces) - 1)
    /\ \A index \in RemainingPlaces :
            LET slot == index - GoneBefore(index)
            IN  /\ slot \in DOMAIN layout.resolved
                /\ IF Declared(index) = None \/ Declared(index).visibility \in HiddenForms
                   THEN layout.resolved[slot] = None
                   ELSE KeysOf(layout.resolved, index) = {slot}

\* C32: after the first loop of render_buttons the entries that are not gone,
\* null entries included, are at the indices 0..M-1 in the order of their
\* declaration: as many indices as entries, the highest M-1.
C32_RemainingEntriesContiguous == last_page_number > 0 => RemainingAreContiguous

\* C32 for the pages without a null entry after a gone button: the part of C32 that holds
C32_WithoutNullAfterGone ==
    (/\ last_page_number > 0
     /\ \A index \in RemainingPlaces : Declared(index) = None => GoneBefore(index) = 0) =>
        RemainingAreContiguous

\* the keys of the layout that hold the system button of an action
SystemKeys(action) == {key \in DOMAIN layout.paginated : layout.paginated[key].kind = action}

\* the pages of the layout: those with an entry at or beyond their first slot
PagesOfLayout ==
    {number \in 1..(MaxButtons + 1) :
        \E key \in DOMAIN layout.paginated : key >= (number - 1) * SlotsPerPage}

\* a page rendered whose entries are at contiguous indices (no null entry after
\* a gone button) and whose next button is not configured at the slot of the
\* back or the previous button
PlainlyConfigured ==
    /\ last_page_number > 0
    /\ \A index \in RemainingPlaces : Declared(index) = None => GoneBefore(index) = 0
    /\ system_buttons.next = 1 =>
            /\ system_buttons.previous # 1
            /\ page_config.id = Root \/ system_buttons.back # 1

\* the back and previous buttons are where their positions say, and a
\* position of 0 gives no button of that kind
SystemButtonsByPosition ==
    /\ (page_config.id # Root /\ system_buttons.back > 0 /\ layout.resolved # EmptyDict) =>
            Get(layout.paginated, system_buttons.back - 1).kind = PAGE_BACK
    /\ system_buttons.previous > 0 =>
            \A number \in PagesOfLayout \ {1} :
                Get(layout.paginated,
                    (number - 1) * SlotsPerPage + system_buttons.previous - 1).kind
                    = PAGE_PREVIOUS
    /\ (page_config.id = Root \/ system_buttons.back = 0) => SystemKeys(PAGE_BACK) = {}
    /\ system_buttons.previous = 0 => SystemKeys(PAGE_PREVIOUS) = {}
    /\ system_buttons.next = 0 => SystemKeys(PAGE_NEXT) = {}
    /\ (/\ page_config.id = Root \/ system_buttons.back = 0
        /\ system_buttons.previous = 0 /\ system_buttons.next = 0) =>
            layout.paginated = layout.resolved

\* C33: the pagination puts a previous button on every page after the first
\* at the slot of its position, and a back button on the first page of a sub
\* page at the slot of its position, when the position is above 0; a back,
\* previous or next button at position 0 is not inserted and moves no button.
C33_PositionZeroInsertsNothing == PlainlyConfigured => SystemButtonsByPosition

\* C33 for the configurations with a next button (position above 0): the part of C33 that holds
C33_WithNextButton ==
    (PlainlyConfigured /\ system_buttons.next > 0) => SystemButtonsByPosition

LocationIsTop == pages_stack # <<>> /\ Top(pages_stack) = Location

\* C35: in every state of an active session the current location is the top
\* entry of the page stack.
C35_LocationIsTopOfStack == is_ready => LocationIsTop

\* C35 for every step but a $page.back: page_go_to of a page that exists or
\* not, page_go_previous, page_go_next and the reloads keep the location at the
\* top of the stack
C35_KeptByAllButBack ==
    [][(LocationIsTop /\ is_ready' /\ ~Triggered(PAGE_BACK)') => LocationIsTop']_vars

\* the gesture of a slot pressed while awake is classified: once released it
\* has got one tap or one hold, not both and not neither; and while it is held
\* past the threshold, with no timer due, it has got its hold
Classified(index) ==
    /\ gesture[index].released => gesture[index].taps + gesture[index].holds = 1
    /\ (/\ ~gesture[index].released /\ gesture[index].age >= HoldThreshold
        /\ \A task \in DOMAIN timers : timers[task] < HoldThreshold) =>
            gesture[index].holds = 1

\* C36: whatever the events of the other slot, each press of a slot made while
\* awake gets exactly one of tap and hold with its release, and a slot held
\* past the hold threshold has got its hold.
C36_OtherSlotsLeaveGestureAlone ==
    \A index \in Slots : gesture[index].awake => Classified(index)


\* C37: in every state of a session, which is where a handler has run up to
\* its next await, the brightness last written to the device is that of the
\* power state: 0 asleep, the dim brightness dimmed, the brightness of the
\* configuration awake.
C37_BrightnessMatchesPower ==
    is_ready =>
        brightness = CASE sleep_status = SLEEP -> 0
                       [] sleep_status = DIM -> configuration.sleep.dim_brightness
                       [] OTHER -> configuration.brightness

\* a device awake at the default brightness was reloaded with a configuration
\* of another brightness, and the tick has dimmed it since
C37_Witness ==
    /\ is_ready /\ Len(pages_stack) >= 2
    /\ configuration.brightness = LowBrightness
    /\ sleep_status = DIM /\ brightness = configuration.sleep.dim_brightness


\* slot index is down, its press was the last event and was handled while the
\* device was asleep
PressedAsleep(index) ==
    /\ sleep_status = SLEEP /\ index \in down
    /\ button_index = index /\ ~is_holding /\ ~gesture[index].awake

\* the release of a press made asleep starts the wake-up, and the wake-up ends
\* awake at the brightness of the configuration
ReleaseWakes(index) ==
    /\ (ReleaseEvent(index, ServiceActions) /\ PressedAsleep(index)) =>
            (read_pc' = "waking" /\ is_ready')
    /\ WakeFinish => (sleep_status' = WAKE /\ brightness' = configuration.brightness)

\* C38: in every state asleep, entered by the tick or by a hold of slot 13,
\* with a sleep configuration or without, a press and its release wake the
\* device: it is awake at the brightness of the configuration.
C38_AsleepIsNoTrap == [][\A index \in Slots : ReleaseWakes(index)]_vars

\* C38 for a device whose configuration has a sleep configuration: the part of C38 that holds
C38_WithSleepConfiguration ==
    [][\A index \in Slots : configuration.sleep.present => ReleaseWakes(index)]_vars


\* every page of the layout with a button on a later page holds a next button
NextButtonOnEveryPageBefore ==
    \A number \in PagesWithButtonsBeyond :
        \E key \in buttons_range(number) : Get(layout.paginated, key).kind = PAGE_NEXT

\* C39: with a next button configured, every page of the layout that has a
\* button of the page on a later page holds a next button in one of its slots,
\* also when only the back or previous button inserted on it made the page
\* overflow.
C39_LaterButtonsReachable ==
    (last_page_number > 0 /\ system_buttons.next > 0) => NextButtonOnEveryPageBefore

\* C39 for the pages on which no back and no previous button is inserted: the
\* part of C39 that holds
C39_WithoutInsertedButtons ==
    (/\ last_page_number > 0 /\ system_buttons.next > 0
     /\ page_config.id = Root /\ system_buttons.previous = 0) =>
        NextButtonOnEveryPageBefore


\* a step that is a reload_all of a valid configuration: a hot reload, or the
\* initial load of a session
SuccessfulReload ==
    \/ \E new_configuration \in BrightConfigurations :
            HotReload(new_configuration, MaxStack + 1)
    \/ \E new_configuration \in BrightConfigurations : Reconnect(new_configuration)

\* C40: after every reload_all of a valid configuration, the initial load or a
\* hot reload, from any power state and any location, the device is awake at
\* the brightness of the new configuration, the idle clock is at zero, and the
\* location is ($root, 1), which is the top of the page stack.
C40_ReloadLandsAwakeAtRoot ==
    [][SuccessfulReload =>
            /\ sleep_status' = WAKE
            /\ brightness' = configuration'.brightness
            /\ idle' = 0
            /\ current_page_id' = Root /\ current_page_number' = 1
            /\ pages_stack' # <<>> /\ Top(pages_stack') = <<Root, 1>>]_vars

\* a hot reload has just acted while the device was not awake on the page
\* "sub", and has taken a configuration of the lower brightness
C40_Witness ==
    /\ calls = <<"set_brightness", "set_brightness", "render", "set_buttons">>
    /\ Len(pages_stack) >= 3
    /\ pages_stack[Len(pages_stack) - 1][1] = "sub"
    /\ sleep_status = WAKE /\ brightness = LowBrightness /\ idle = 0
    /\ Location = <<Root, 1>>

====
